---- MODULE Spec2Model ----
(***************************************************************************)
(* Relational integrity model of the recipe platform backend: the six      *)
(* tables declared under app/models, the request schemas under             *)
(* app/schemas, and the user repository and route under app/repositories   *)
(* and app/routers.                                                        *)
(*                                                                         *)
(* Identifiers are uuid4 strings in the code; here a row's id is its       *)
(* creation rank in its table (1, 2, ...), so an id is never used twice.   *)
(* The store is the default engine (MySQL/InnoDB): CHECK, UNIQUE, PRIMARY  *)
(* KEY and FOREIGN KEY ... ON DELETE CASCADE are enforced by the engine,   *)
(* and one statement or one commit is one atomic step.                     *)
(***************************************************************************)
EXTENDS Integers, FiniteSets, Sequences, TLC

VARIABLES usuarios, publicaciones, comentarios, reacciones, favoritos, multimedia, creados, ultima, sol, payload, veredicto, nube

vars == <<usuarios, publicaciones, comentarios, reacciones, favoritos, multimedia, creados, ultima, sol, payload, veredicto, nube>>

tablas == <<usuarios, publicaciones, comentarios, reacciones, favoritos, multimedia, creados>>

(***************************************************************************)
(* Bounds of the model.                                                    *)
(***************************************************************************)
\* Spec: rows ever created in each table.
MaxUsuarios == 2
MaxPublicaciones == 1
MaxComentarios == 2
MaxReacciones == 1
MaxFavoritos == 1
MaxMultimedia == 1
\* SpecReaccion: reactions ever created.
MaxReaccionesR == 3
\* SpecCarrera: concurrent requests.
MaxSolicitudes == 2
\* Rows added to the populated store in SpecBorrado.
MaxExtras == 2
\* Comments and reactions added to the populated store in SpecDestino.
MaxDestinos == 2
\* Requests handled in SpecEdicion.
MaxEdiciones == 2

(***************************************************************************)
(* Column and payload values.                                              *)
(***************************************************************************)
\* SQL NULL / Python None / JSON null in an id column or field.
NULL == 0
\* The empty string "" given for an Optional[str] id field.
EMPTY == -1

LIKE == "like"
DISLIKE == "dislike"
TipoReaccion == {LIKE, DISLIKE}

ACTIVO == "activo"
ELIMINADO == "eliminado"
EstatusComentario == {ACTIVO, ELIMINADO}

BORRADOR == "borrador"
PUBLICADA == "publicada"
ELIMINADA == "eliminada"
EstatusPublicacion == {PUBLICADA, BORRADOR, ELIMINADA}

\* Python truthiness of an Optional[str]: None and "" are falsy.
Truthy(v) == v # NULL /\ v # EMPTY

\* str.strip() on the texts the model sends.
Strip(s) == CASE s = " " -> "" [] s = " hola " -> "hola" [] OTHER -> s

\* The ASCII letters and digits, upper case and lower case in the same order.
MAYUSCULAS == "ABCDEFGHIJKLMNOPQRSTUVWXYZ"
MINUSCULAS == "abcdefghijklmnopqrstuvwxyz"
DIGITOS == "0123456789"

\* c occurs in the string v.
En(c, v) == \E i \in 1..Len(v) : SubSeq(v, i, i) = c

\* The characters of the string v.
Letras(v) == {SubSeq(v, i, i) : i \in 1..Len(v)}

\* str.lower(), character by character.
MINUSCULA == [c \in Letras(MAYUSCULAS) |-> LET k == CHOOSE i \in 1..Len(MAYUSCULAS) : SubSeq(MAYUSCULAS, i, i) = c IN SubSeq(MINUSCULAS, k, k)]
RECURSIVE Lower(_)
Lower(v) ==
    IF v = "" THEN ""
    ELSE LET c == SubSeq(v, 1, 1)
         IN  (IF c \in DOMAIN MINUSCULA THEN MINUSCULA[c] ELSE c) \o Lower(Tail(v))

\* str.isalnum(): not empty, and every character a letter or a digit.
ALFANUMERICOS == Letras(MAYUSCULAS \o MINUSCULAS \o DIGITOS)
IsAlnum(v) == v # "" /\ \A i \in 1..Len(v) : SubSeq(v, i, i) \in ALFANUMERICOS

\* str.replace(c, '').
RECURSIVE Sin(_, _)
Sin(v, c) == IF v = "" THEN "" ELSE (IF SubSeq(v, 1, 1) = c THEN "" ELSE SubSeq(v, 1, 1)) \o Sin(Tail(v), c)

\* The password of the users of the populated store.
CLAVE == "Clave12345a"

\* utils.auth.hash_password and verify_password: the hash is not the password, and
\* a password verifies against its own hash only.
hash_password(password) == "$2b$" \o password
\* Mutant: every password verifies.
verify_password_siempre(plain_password, hashed_password) == TRUE

verify_password(plain_password, hashed_password) == hashed_password = hash_password(plain_password)

(***************************************************************************)
(* Request schemas (pydantic).  A payload is the set of keys present in    *)
(* the request body plus their values; a key that is absent takes the      *)
(* field's default and, the validators being declared without always=True, *)
(* its validator is not run.                                               *)
(***************************************************************************)
ERR_REQUERIDO == "field required"
ERR_MIN_LENGTH == "ensure this value has at least 1 characters"
ERR_ENUM == "value is not a valid enumeration member"
ERR_VACIO == "El comentario no puede estar vacío"
ERR_NINGUNO == "Debe especificar id_publicacion o id_comentario"
ERR_AMBOS == "No puede especificar ambos id_publicacion e id_comentario"

Valido(v) == [ok |-> TRUE, v |-> v, error |-> ""]
Invalido(v, e) == [ok |-> FALSE, v |-> v, error |-> e]
\* The messages a ValidationError collects from a field.
Errores(r) == IF r.ok THEN {} ELSE {r.error}

\* ComentarioBase.comentario: Field(..., min_length=1), then @validator('comentario').
ComentarioCreate_validar_comentario(v) == IF Len(v) < 1 THEN Invalido(v, ERR_MIN_LENGTH) ELSE IF Strip(v) = "" THEN Invalido(v, ERR_VACIO) ELSE Valido(Strip(v))

\* ComentarioCreate.validar_relacion: @validator('id_comentario') with values.get('id_publicacion').
ComentarioCreate_validar_relacion(v, id_publicacion) == IF ~Truthy(id_publicacion) /\ ~Truthy(v) THEN Invalido(v, ERR_NINGUNO) ELSE IF Truthy(id_publicacion) /\ Truthy(v) THEN Invalido(v, ERR_AMBOS) ELSE Valido(v)

\* ComentarioCreate(**payload): fields in declaration order comentario, id_publicacion, id_comentario.
ComentarioCreate(p) ==
    LET com == IF "comentario" \in p.presentes THEN ComentarioCreate_validar_comentario(p.comentario) ELSE Invalido("", ERR_REQUERIDO)
        pub == IF "id_publicacion" \in p.presentes THEN p.id_publicacion ELSE NULL
        rel == IF "id_comentario" \in p.presentes THEN ComentarioCreate_validar_relacion(p.id_comentario, pub) ELSE Valido(NULL)
    IN  [ok |-> com.ok /\ rel.ok, errores |-> Errores(com) \cup Errores(rel), comentario |-> com.v, reaccion |-> "", id_publicacion |-> pub, id_comentario |-> rel.v]

\* ReaccionBase.reaccion: TipoReaccion = Field(...).
ReaccionCreate_reaccion(v) == IF v \in TipoReaccion THEN Valido(v) ELSE Invalido(v, ERR_ENUM)

\* ReaccionCreate.validar_relacion: @validator('id_comentario') with values.get('id_publicacion').
ReaccionCreate_validar_relacion(v, id_publicacion) == IF ~Truthy(id_publicacion) /\ ~Truthy(v) THEN Invalido(v, ERR_NINGUNO) ELSE IF Truthy(id_publicacion) /\ Truthy(v) THEN Invalido(v, ERR_AMBOS) ELSE Valido(v)

\* ReaccionCreate(**payload): fields in declaration order reaccion, id_publicacion, id_comentario.
ReaccionCreate(p) ==
    LET tipo == IF "reaccion" \in p.presentes THEN ReaccionCreate_reaccion(p.reaccion) ELSE Invalido("", ERR_REQUERIDO)
        pub == IF "id_publicacion" \in p.presentes THEN p.id_publicacion ELSE NULL
        rel == IF "id_comentario" \in p.presentes THEN ReaccionCreate_validar_relacion(p.id_comentario, pub) ELSE Valido(NULL)
    IN  [ok |-> tipo.ok /\ rel.ok, errores |-> Errores(tipo) \cup Errores(rel), comentario |-> "", reaccion |-> tipo.v, id_publicacion |-> pub, id_comentario |-> rel.v]

\* Request bodies: any subset of the schema's keys, an absent key carrying no value.
ValoresId(max) == {NULL, EMPTY} \cup (1..max)
TextosPayload == {"", " ", "hola", " hola "}
TiposPayload == {LIKE, DISLIKE, "love"}
ClavesDe(esquema) == IF esquema = "ComentarioCreate" THEN {"comentario", "id_publicacion", "id_comentario"} ELSE {"reaccion", "id_publicacion", "id_comentario"}

Payloads(esquema) ==
    {p \in [esquema : {esquema}, presentes : SUBSET ClavesDe(esquema), comentario : TextosPayload, reaccion : TiposPayload \cup {""}, id_publicacion : ValoresId(MaxPublicaciones), id_comentario : ValoresId(MaxComentarios)] :
        /\ ("comentario" \notin p.presentes => p.comentario = "")
        /\ ("reaccion" \in p.presentes) = (p.reaccion # "")
        /\ ("id_publicacion" \notin p.presentes => p.id_publicacion = NULL)
        /\ ("id_comentario" \notin p.presentes => p.id_comentario = NULL)}

SinPayload == [esquema |-> "", presentes |-> {}, comentario |-> "", reaccion |-> "", id_publicacion |-> NULL, id_comentario |-> NULL]
SinVeredicto == [ok |-> FALSE, errores |-> {"pendiente"}, comentario |-> "", reaccion |-> "", id_publicacion |-> NULL, id_comentario |-> NULL]

(***************************************************************************)
(* The empty store, and the bookkeeping the store specifications leave     *)
(* untouched.                                                              *)
(***************************************************************************)
\* Values of Usuario.email and Usuario.alias.
Correos == {"ana@x.mx", "beto@x.mx", "caro@x.mx"}
Apodos == {"ana", "beto", "caro"}

SinCreados == [u |-> 0, p |-> 0, c |-> 0, r |-> 0, f |-> 0, m |-> 0]
SinUltima == [op |-> "", res |-> "", id |-> NULL, dup |-> FALSE, n |-> 0]

TablasVacias ==
    /\ usuarios = {}
    /\ publicaciones = {}
    /\ comentarios = {}
    /\ reacciones = {}
    /\ favoritos = {}
    /\ multimedia = {}
    /\ creados = SinCreados
    /\ nube = {}

(***************************************************************************)
(* Tables.  A row is a record of its columns:                              *)
(*   Usuario     [id, email, alias, contrasena, nombre, foto_perfil,       *)
(*               fecha_registro]                                           *)
(*               (nombre stands for the profile columns nombre,            *)
(*               apellido_paterno, apellido_materno, telefono, direccion,  *)
(*               foto_perfil, which the code treats alike)                 *)
(*   Publicacion [id, titulo, descripcion, fecha_creacion,                 *)
(*                fecha_publicacion, fecha_modificacion, estatus, id_autor]*)
(*   Comentario  [id, estatus, comentario, fecha_creacion, id_usuario,     *)
(*                id_publicacion, id_comentario]                           *)
(*   Reaccion    [id, reaccion, id_usuario, id_publicacion, id_comentario] *)
(*   Multimedia  [id, id_publicacion]                                      *)
(*   Favorito    [fila, id_usuario, id_publicacion]                        *)
(* Favoritos has no id column; fila is the physical row, so that two rows  *)
(* for one (user, post) pair are representable.                            *)
(***************************************************************************)
Ids(tabla) == {x.id : x \in tabla}

\* Mutants: the column is declared without its ForeignKey.
ForeignKey_ausente(tabla, v) == TRUE
ForeignKeyNullable_ausente(tabla, v) == TRUE

\* Column(..., ForeignKey("T.id"), nullable=False): the value is the id of a row of T.
ForeignKey(tabla, v) == v \in Ids(tabla)
\* Column(..., ForeignKey("T.id"), nullable=True): NULL, or the id of a row of T.
ForeignKeyNullable(tabla, v) == v = NULL \/ v \in Ids(tabla)

\* Mutant: the constraint only asks for some target, not for exactly one.
check_comentario_algun_destino(x) == x.id_publicacion # NULL \/ x.id_comentario # NULL

\* CheckConstraint check_comentario_pertenece_a.
check_comentario_pertenece_a(x) == (x.id_publicacion # NULL /\ x.id_comentario = NULL) \/ (x.id_publicacion = NULL /\ x.id_comentario # NULL)

\* CheckConstraint check_reaccion_a.
check_reaccion_a(x) == (x.id_publicacion # NULL /\ x.id_comentario = NULL) \/ (x.id_publicacion = NULL /\ x.id_comentario # NULL)

\* Mutants: the unique constraint is not declared.
unique_reaccion_publicacion_ausente(x) == TRUE
unique_reaccion_comentario_ausente(x) == TRUE

\* UniqueConstraint('id_usuario', 'id_publicacion'): two rows collide when both columns
\* are equal and not NULL (SQL unique indexes never match NULL with NULL).
unique_reaccion_publicacion(x) == x.id_publicacion = NULL \/ ~\E y \in reacciones : y.id_usuario = x.id_usuario /\ y.id_publicacion = x.id_publicacion

\* UniqueConstraint('id_usuario', 'id_comentario').
unique_reaccion_comentario(x) == x.id_comentario = NULL \/ ~\E y \in reacciones : y.id_usuario = x.id_usuario /\ y.id_comentario = x.id_comentario

\* Mutant: the composite primary key is not declared.
pk_favoritos_ausente(x) == TRUE

\* PrimaryKeyConstraint('id_usuario', 'id_publicacion', name='pk_favoritos').
pk_favoritos(x) == ~\E y \in favoritos : y.id_usuario = x.id_usuario /\ y.id_publicacion = x.id_publicacion

OK == "ok"
IntegrityError(restriccion) == restriccion

\* What the engine answers to INSERT INTO Comentario.
ErrorInsertComentario(x) ==
    IF ~check_comentario_pertenece_a(x) THEN IntegrityError("check_comentario_pertenece_a")
    ELSE IF ~(ForeignKey(usuarios, x.id_usuario) /\ ForeignKeyNullable(publicaciones, x.id_publicacion) /\ ForeignKeyNullable(comentarios, x.id_comentario)) THEN IntegrityError("foreign_key")
    ELSE OK

\* What the engine answers to INSERT INTO Reaccion.
ErrorInsertReaccion(x) ==
    IF ~check_reaccion_a(x) THEN IntegrityError("check_reaccion_a")
    ELSE IF ~(ForeignKey(usuarios, x.id_usuario) /\ ForeignKeyNullable(publicaciones, x.id_publicacion) /\ ForeignKeyNullable(comentarios, x.id_comentario)) THEN IntegrityError("foreign_key")
    ELSE IF ~unique_reaccion_publicacion(x) THEN IntegrityError("unique_reaccion_publicacion")
    ELSE IF ~unique_reaccion_comentario(x) THEN IntegrityError("unique_reaccion_comentario")
    ELSE OK

\* What the engine answers to INSERT INTO Favoritos.
ErrorInsertFavorito(x) ==
    IF ~(ForeignKey(usuarios, x.id_usuario) /\ ForeignKey(publicaciones, x.id_publicacion)) THEN IntegrityError("foreign_key")
    ELSE IF ~pk_favoritos(x) THEN IntegrityError("pk_favoritos")
    ELSE OK

\* Mutant: the alias column is not unique.
unique_alias_ausente(x) == TRUE

\* Column(unique=True) of Usuario.email and Usuario.alias.
unique_email(x) == ~\E y \in usuarios : y.id # x.id /\ y.email = x.email
unique_alias(x) == ~\E y \in usuarios : y.id # x.id /\ y.alias = x.alias

\* What the engine answers to INSERT INTO Usuario.
ErrorInsertUsuario(x) ==
    IF ~unique_email(x) THEN IntegrityError("unique_email")
    ELSE IF ~unique_alias(x) THEN IntegrityError("unique_alias")
    ELSE OK

\* What the engine answers to INSERT INTO Publicacion and INSERT INTO Multimedia.
ErrorInsertPublicacion(x) == IF ForeignKey(usuarios, x.id_autor) THEN OK ELSE IntegrityError("foreign_key")
ErrorInsertMultimedia(x) == IF ForeignKey(publicaciones, x.id_publicacion) THEN OK ELSE IntegrityError("foreign_key")

(***************************************************************************)
(* Row constructors: the column defaults of the models.                    *)
(***************************************************************************)
\* func.now(): a logical clock that every INSERT advances.
Ahora == 1 + creados.u + creados.p + creados.c + creados.r + creados.f + creados.m

Usuario(email, alias, contrasena, foto_perfil) == [id |-> creados.u + 1, email |-> email, alias |-> alias, contrasena |-> contrasena, nombre |-> "Ana", foto_perfil |-> foto_perfil, fecha_registro |-> Ahora]
Publicacion(estatus, id_autor) == [id |-> creados.p + 1, titulo |-> "Tacos", descripcion |-> "receta", fecha_creacion |-> Ahora, fecha_publicacion |-> NULL, fecha_modificacion |-> NULL, estatus |-> estatus, id_autor |-> id_autor]
Comentario(texto, id_usuario, id_publicacion, id_comentario) == [id |-> creados.c + 1, estatus |-> ACTIVO, comentario |-> texto, fecha_creacion |-> Ahora, id_usuario |-> id_usuario, id_publicacion |-> id_publicacion, id_comentario |-> id_comentario]
Reaccion(tipo, id_usuario, id_publicacion, id_comentario) == [id |-> creados.r + 1, reaccion |-> tipo, id_usuario |-> id_usuario, id_publicacion |-> id_publicacion, id_comentario |-> id_comentario]
Multimedia(id_publicacion) == [id |-> creados.m + 1, id_publicacion |-> id_publicacion]
Favorito(id_usuario, id_publicacion) == [fila |-> creados.f + 1, id_usuario |-> id_usuario, id_publicacion |-> id_publicacion]

(***************************************************************************)
(* db.add(row); db.commit(): the row is stored if the engine accepts it,   *)
(* otherwise the transaction fails and the store is as before.             *)
(***************************************************************************)
InsertUsuario(x) ==
    /\ IF ErrorInsertUsuario(x) = OK THEN usuarios' = usuarios \cup {x} /\ creados' = [creados EXCEPT !.u = @ + 1] ELSE UNCHANGED <<usuarios, creados>>
    /\ UNCHANGED <<publicaciones, comentarios, reacciones, favoritos, multimedia>>

InsertPublicacion(x) ==
    /\ IF ErrorInsertPublicacion(x) = OK THEN publicaciones' = publicaciones \cup {x} /\ creados' = [creados EXCEPT !.p = @ + 1] ELSE UNCHANGED <<publicaciones, creados>>
    /\ UNCHANGED <<usuarios, comentarios, reacciones, favoritos, multimedia>>

InsertComentario(x) ==
    /\ IF ErrorInsertComentario(x) = OK THEN comentarios' = comentarios \cup {x} /\ creados' = [creados EXCEPT !.c = @ + 1] ELSE UNCHANGED <<comentarios, creados>>
    /\ UNCHANGED <<usuarios, publicaciones, reacciones, favoritos, multimedia>>

InsertReaccion(x) ==
    /\ IF ErrorInsertReaccion(x) = OK THEN reacciones' = reacciones \cup {x} /\ creados' = [creados EXCEPT !.r = @ + 1] ELSE UNCHANGED <<reacciones, creados>>
    /\ UNCHANGED <<usuarios, publicaciones, comentarios, favoritos, multimedia>>

InsertFavorito(x) ==
    /\ IF ErrorInsertFavorito(x) = OK THEN favoritos' = favoritos \cup {x} /\ creados' = [creados EXCEPT !.f = @ + 1] ELSE UNCHANGED <<favoritos, creados>>
    /\ UNCHANGED <<usuarios, publicaciones, comentarios, reacciones, multimedia>>

InsertMultimedia(x) ==
    /\ IF ErrorInsertMultimedia(x) = OK THEN multimedia' = multimedia \cup {x} /\ creados' = [creados EXCEPT !.m = @ + 1] ELSE UNCHANGED <<multimedia, creados>>
    /\ UNCHANGED <<usuarios, publicaciones, comentarios, reacciones, favoritos>>

(***************************************************************************)
(* Methods of the models, as functions of the row.                         *)
(***************************************************************************)
TOMBSTONE == "[Comentario eliminado]"

\* Mutant: a dislike is left as it is.
Reaccion_cambiar_reaccion_solo_like(x) == [x EXCEPT !.reaccion = DISLIKE]

\* Reaccion.cambiar_reaccion.
Reaccion_cambiar_reaccion(x) == [x EXCEPT !.reaccion = IF x.reaccion = LIKE THEN DISLIKE ELSE LIKE]

\* Mutant: the status is set and the text is kept.
Comentario_eliminar_logicamente_solo_estatus(x) == [x EXCEPT !.estatus = ELIMINADO]

\* Mutant: the comment is also detached from its parent.
Comentario_eliminar_logicamente_suelta(x) == [x EXCEPT !.estatus = ELIMINADO, !.comentario = TOMBSTONE, !.id_comentario = NULL]

\* Mutant: the text is replaced and the status is kept.
Comentario_eliminar_logicamente_solo_texto(x) == [x EXCEPT !.comentario = TOMBSTONE]

\* Comentario.eliminar_logicamente.
Comentario_eliminar_logicamente(x) == [x EXCEPT !.estatus = ELIMINADO, !.comentario = TOMBSTONE]

\* Publicacion.publicar.
Publicacion_publicar(x) == [x EXCEPT !.estatus = PUBLICADA, !.fecha_publicacion = Ahora]

\* Mutant: the description is cleared as well.
Publicacion_eliminar_logicamente_sin_texto(x) == [x EXCEPT !.estatus = ELIMINADA, !.descripcion = ""]

\* Publicacion.eliminar_logicamente.
Publicacion_eliminar_logicamente(x) == [x EXCEPT !.estatus = ELIMINADA]

(***************************************************************************)
(* Deletion.  db.delete(obj) marks obj and, along every relationship       *)
(* declared cascade="all, delete-orphan", its children, recursively; the   *)
(* commit deletes the marked rows, and the engine deletes whatever row     *)
(* still references a deleted one (ForeignKey(..., ondelete="CASCADE")).   *)
(* An object is named by its table and key.                                *)
(***************************************************************************)
Objetos(tabla, filas) == {<<tabla, x.id>> : x \in filas}
ObjetosFavorito(filas) == {<<"Favoritos", x.fila>> : x \in filas}

\* Usuario.publicaciones, .comentarios, .reacciones, .favoritos.
Usuario_publicaciones(id) == Objetos("Publicacion", {x \in publicaciones : x.id_autor = id})
Usuario_comentarios(id) == Objetos("Comentario", {x \in comentarios : x.id_usuario = id})
Usuario_reacciones(id) == Objetos("Reaccion", {x \in reacciones : x.id_usuario = id})
Usuario_favoritos(id) == ObjetosFavorito({x \in favoritos : x.id_usuario = id})

\* Publicacion.comentarios, .reacciones, .multimedia, .favoritos.
Publicacion_comentarios(id) == Objetos("Comentario", {x \in comentarios : x.id_publicacion = id})
Publicacion_reacciones(id) == Objetos("Reaccion", {x \in reacciones : x.id_publicacion = id})
Publicacion_multimedia(id) == Objetos("Multimedia", {x \in multimedia : x.id_publicacion = id})
Publicacion_favoritos(id) == ObjetosFavorito({x \in favoritos : x.id_publicacion = id})

\* Comentario.respuestas, .reacciones.
Comentario_respuestas(id) == Objetos("Comentario", {x \in comentarios : x.id_comentario = id})
Comentario_reacciones(id) == Objetos("Reaccion", {x \in reacciones : x.id_comentario = id})

\* The children db.delete reaches from one object in one step.
Hijos(n) ==
    CASE n[1] = "Usuario" -> Usuario_publicaciones(n[2]) \cup Usuario_comentarios(n[2]) \cup Usuario_reacciones(n[2]) \cup Usuario_favoritos(n[2])
      [] n[1] = "Publicacion" -> Publicacion_comentarios(n[2]) \cup Publicacion_reacciones(n[2]) \cup Publicacion_multimedia(n[2]) \cup Publicacion_favoritos(n[2])
      [] n[1] = "Comentario" -> Comentario_respuestas(n[2]) \cup Comentario_reacciones(n[2])
      [] OTHER -> {}

\* The delete cascade of the unit of work: every object reachable through Hijos.
RECURSIVE Cascada(_)
Cascada(S) == LET T == S \cup UNION {Hijos(n) : n \in S} IN IF T = S THEN S ELSE Cascada(T)

\* The rows whose ForeignKey(..., ondelete="CASCADE") column references object n.
ReferentesFK(n) ==
    CASE n[1] = "Usuario" -> Objetos("Publicacion", {x \in publicaciones : x.id_autor = n[2]}) \cup Objetos("Comentario", {x \in comentarios : x.id_usuario = n[2]}) \cup Objetos("Reaccion", {x \in reacciones : x.id_usuario = n[2]}) \cup ObjetosFavorito({x \in favoritos : x.id_usuario = n[2]})
      [] n[1] = "Publicacion" -> Objetos("Comentario", {x \in comentarios : x.id_publicacion = n[2]}) \cup Objetos("Reaccion", {x \in reacciones : x.id_publicacion = n[2]}) \cup Objetos("Multimedia", {x \in multimedia : x.id_publicacion = n[2]}) \cup ObjetosFavorito({x \in favoritos : x.id_publicacion = n[2]})
      [] n[1] = "Comentario" -> Objetos("Comentario", {x \in comentarios : x.id_comentario = n[2]}) \cup Objetos("Reaccion", {x \in reacciones : x.id_comentario = n[2]})
      [] OTHER -> {}

\* ON DELETE CASCADE in the engine, applied until no row references a deleted one.
RECURSIVE OnDeleteCascade(_)
OnDeleteCascade(S) == LET T == S \cup UNION {ReferentesFK(n) : n \in S} IN IF T = S THEN S ELSE OnDeleteCascade(T)

\* Mutant: the delete reaches the object and its children, not their own children.
BorradosUnNivel(raiz) == {raiz} \cup Hijos(raiz)

\* The rows gone after db.delete(raiz); db.commit().
Borrados(raiz) == OnDeleteCascade(Cascada({raiz}))

\* db.delete(raiz); db.commit().
DbDelete(raiz) ==
    \E B \in {Borrados(raiz)} :
    /\ usuarios' = {x \in usuarios : <<"Usuario", x.id>> \notin B}
    /\ publicaciones' = {x \in publicaciones : <<"Publicacion", x.id>> \notin B}
    /\ comentarios' = {x \in comentarios : <<"Comentario", x.id>> \notin B}
    /\ reacciones' = {x \in reacciones : <<"Reaccion", x.id>> \notin B}
    /\ multimedia' = {x \in multimedia : <<"Multimedia", x.id>> \notin B}
    /\ favoritos' = {x \in favoritos : <<"Favoritos", x.fila>> \notin B}
    /\ UNCHANGED creados

\* The objects of the store other than users.
ObjetosBorrables == Objetos("Publicacion", publicaciones) \cup Objetos("Comentario", comentarios) \cup Objetos("Reaccion", reacciones) \cup Objetos("Multimedia", multimedia) \cup ObjetosFavorito(favoritos)

\* repositories.get_usuario_by_id: the row, or none.
get_usuario_by_id(usuario_id) == {x \in usuarios : x.id = usuario_id}

\* repositories.eliminar_usuario: False when the user is not found, else delete, commit, True.
eliminar_usuario_resultado(usuario_id) == get_usuario_by_id(usuario_id) # {}
eliminar_usuario(usuario_id) == IF get_usuario_by_id(usuario_id) = {} THEN UNCHANGED tablas ELSE DbDelete(<<"Usuario", usuario_id>>)

\* UPDATE of one row, committed.
UpdateReaccion(x, y) == reacciones' = (reacciones \ {x}) \cup {y} /\ UNCHANGED <<usuarios, publicaciones, comentarios, favoritos, multimedia, creados>>
UpdateComentario(x, y) == comentarios' = (comentarios \ {x}) \cup {y} /\ UNCHANGED <<usuarios, publicaciones, reacciones, favoritos, multimedia, creados>>
UpdatePublicacion(x, y) == publicaciones' = (publicaciones \ {x}) \cup {IF y = x THEN x ELSE [y EXCEPT !.fecha_modificacion = Ahora]} /\ UNCHANGED <<usuarios, comentarios, reacciones, favoritos, multimedia, creados>>

(***************************************************************************)
(* Spec: the store under every operation, from the empty store.            *)
(***************************************************************************)
\* Spec observes the calls of eliminar_usuario: ultima is the call that led to the
\* state, with its answer and the number of rows it removed, and is blank after
\* any other operation.
otros == ultima' = SinUltima /\ UNCHANGED <<sol, payload, veredicto, nube>>

\* The rows of the store.
Filas == Objetos("Usuario", usuarios) \cup ObjetosBorrables

Init ==
    /\ TablasVacias
    /\ ultima = SinUltima
    /\ sol = <<>>
    /\ payload = SinPayload
    /\ veredicto = SinVeredicto

\* Values a caller may put in a reference column: NULL or any id, stored or not.
Refs(max) == 0..max

CrearUsuario == creados.u < MaxUsuarios /\ \E e \in Correos, a \in Apodos : InsertUsuario(Usuario(e, a, hash_password(CLAVE), "")) /\ otros
CrearPublicacion == creados.p < MaxPublicaciones /\ \E e \in EstatusPublicacion, a \in 1..MaxUsuarios : InsertPublicacion(Publicacion(e, a)) /\ otros
CrearComentario == creados.c < MaxComentarios /\ \E u \in 1..MaxUsuarios, p \in Refs(MaxPublicaciones), c \in Refs(MaxComentarios) : InsertComentario(Comentario("hola", u, p, c)) /\ otros
CrearReaccion == creados.r < MaxReacciones /\ \E t \in TipoReaccion, u \in 1..MaxUsuarios, p \in Refs(MaxPublicaciones), c \in Refs(MaxComentarios) : InsertReaccion(Reaccion(t, u, p, c)) /\ otros
CrearFavorito == creados.f < MaxFavoritos /\ \E u \in 1..MaxUsuarios, p \in 1..MaxPublicaciones : InsertFavorito(Favorito(u, p)) /\ otros
CrearMultimedia == creados.m < MaxMultimedia /\ \E p \in 1..MaxPublicaciones : InsertMultimedia(Multimedia(p)) /\ otros
CambiarReaccion == \E x \in reacciones : UpdateReaccion(x, Reaccion_cambiar_reaccion(x)) /\ otros
EliminarLogicamenteComentario == \E x \in comentarios : UpdateComentario(x, Comentario_eliminar_logicamente(x)) /\ otros
Publicar == \E x \in publicaciones : UpdatePublicacion(x, Publicacion_publicar(x)) /\ otros
EliminarLogicamentePublicacion == \E x \in publicaciones : UpdatePublicacion(x, Publicacion_eliminar_logicamente(x)) /\ otros
EliminarUsuario ==
    \E u \in 1..MaxUsuarios :
        /\ eliminar_usuario(u)
        /\ ultima' = [op |-> "eliminar_usuario", res |-> IF eliminar_usuario_resultado(u) THEN "True" ELSE "False", id |-> u, dup |-> FALSE, n |-> IF eliminar_usuario_resultado(u) THEN Cardinality(Borrados(<<"Usuario", u>>) \cap Filas) ELSE 0]
        /\ UNCHANGED <<sol, payload, veredicto, nube>>
BorrarFila == \E n \in ObjetosBorrables : DbDelete(n) /\ otros

Next ==
    \/ CrearUsuario
    \/ CrearPublicacion
    \/ CrearComentario
    \/ CrearReaccion
    \/ CrearFavorito
    \/ CrearMultimedia
    \/ CambiarReaccion
    \/ EliminarLogicamenteComentario
    \/ Publicar
    \/ EliminarLogicamentePublicacion
    \/ EliminarUsuario
    \/ BorrarFila

Spec == Init /\ [][Next]_vars

(***************************************************************************)
(* A populated store, as left by two registrations, two posts, a comment   *)
(* on the first post and a reply to it by the other user.                  *)
(***************************************************************************)
\* The ids the callers know: those of the populated store.
UsuariosConocidos == {1, 2}
PublicacionesConocidas == {1, 2}
ComentariosConocidos == {1, 2}

TablasPobladas ==
    /\ usuarios = {[id |-> 1, email |-> "ana@x.mx", alias |-> "ana", contrasena |-> hash_password(CLAVE), nombre |-> "Ana", foto_perfil |-> "user_ana", fecha_registro |-> 1],
                    [id |-> 2, email |-> "beto@x.mx", alias |-> "beto", contrasena |-> hash_password(CLAVE), nombre |-> "Ana", foto_perfil |-> "", fecha_registro |-> 2]}
    /\ publicaciones = {[id |-> 1, titulo |-> "Tacos", descripcion |-> "receta", fecha_creacion |-> 3, fecha_publicacion |-> 5, fecha_modificacion |-> 5, estatus |-> PUBLICADA, id_autor |-> 1],
                         [id |-> 2, titulo |-> "Tacos", descripcion |-> "receta", fecha_creacion |-> 4, fecha_publicacion |-> NULL, fecha_modificacion |-> NULL, estatus |-> BORRADOR, id_autor |-> 2]}
    /\ comentarios = {[id |-> 1, estatus |-> ACTIVO, comentario |-> "hola", fecha_creacion |-> 5, id_usuario |-> 2, id_publicacion |-> 1, id_comentario |-> NULL],
                       [id |-> 2, estatus |-> ACTIVO, comentario |-> "hola", fecha_creacion |-> 6, id_usuario |-> 1, id_publicacion |-> NULL, id_comentario |-> 1]}
    /\ reacciones = {}
    /\ favoritos = {}
    /\ multimedia = {}
    /\ creados = [u |-> 2, p |-> 2, c |-> 2, r |-> 0, f |-> 0, m |-> 0]
    /\ nube = {[public_id |-> "user_ana", contenido |-> "foto original de ana", version |-> 0]}

\* The reactions of a user on a target given as the pair (id_publicacion, id_comentario).
ReaccionesDe(u, p, c) == {y \in reacciones : y.id_usuario = u /\ ((p # NULL /\ y.id_publicacion = p) \/ (c # NULL /\ y.id_comentario = c))}

\* A well-formed target: a post or a comment, not both, not neither.
UnDestino(p, c) == (p # NULL) # (c # NULL)

(***************************************************************************)
(* SpecReaccion: reactions on the populated store; ultima records the last *)
(* request, its answer, the row it touched, and whether the requested      *)
(* (user, target) pair already had a reaction when it was made.            *)
(***************************************************************************)
InitReaccion ==
    /\ TablasPobladas
    /\ ultima = SinUltima
    /\ sol = <<>>
    /\ payload = SinPayload
    /\ veredicto = SinVeredicto

CrearReaccionR ==
    /\ creados.r < MaxReaccionesR
    /\ \E t \in TipoReaccion, u \in Ids(usuarios), p \in {NULL} \cup Ids(publicaciones), c \in {NULL} \cup Ids(comentarios) :
        LET x == Reaccion(t, u, p, c) IN
        /\ InsertReaccion(x)
        /\ ultima' = [op |-> "insert_reaccion", res |-> ErrorInsertReaccion(x), id |-> IF ErrorInsertReaccion(x) = OK THEN x.id ELSE NULL, dup |-> UnDestino(p, c) /\ ReaccionesDe(u, p, c) # {}, n |-> 0]
    /\ UNCHANGED <<sol, payload, veredicto, nube>>

CambiarReaccionR ==
    /\ \E x \in reacciones : UpdateReaccion(x, Reaccion_cambiar_reaccion(x)) /\ ultima' = [op |-> "cambiar_reaccion", res |-> OK, id |-> x.id, dup |-> FALSE, n |-> 0]
    /\ UNCHANGED <<sol, payload, veredicto, nube>>

BorrarReaccionR ==
    /\ \E x \in reacciones : DbDelete(<<"Reaccion", x.id>>) /\ ultima' = [op |-> "delete_reaccion", res |-> OK, id |-> x.id, dup |-> FALSE, n |-> 1]
    /\ UNCHANGED <<sol, payload, veredicto, nube>>

NextReaccion == CrearReaccionR \/ CambiarReaccionR \/ BorrarReaccionR

SpecReaccion == InitReaccion /\ [][NextReaccion]_vars

(***************************************************************************)
(* SpecValid: the request schemas as pure functions of the payload.        *)
(***************************************************************************)
InitValid ==
    /\ TablasVacias
    /\ ultima = SinUltima
    /\ sol = <<>>
    /\ payload \in Payloads("ComentarioCreate") \cup Payloads("ReaccionCreate")
    /\ veredicto = SinVeredicto

ValidarComentarioCreate ==
    /\ payload.esquema = "ComentarioCreate"
    /\ veredicto = SinVeredicto
    /\ veredicto' = ComentarioCreate(payload)
    /\ UNCHANGED <<tablas, ultima, sol, payload, nube>>

ValidarReaccionCreate ==
    /\ payload.esquema = "ReaccionCreate"
    /\ veredicto = SinVeredicto
    /\ veredicto' = ReaccionCreate(payload)
    /\ UNCHANGED <<tablas, ultima, sol, payload, nube>>

NextValid == ValidarComentarioCreate \/ ValidarReaccionCreate

SpecValid == InitValid /\ [][NextValid]_vars

\* The request has been validated.
Validado(esquema) == payload.esquema = esquema /\ veredicto # SinVeredicto

\* The targets the caller set in the body: a key given with an id (null and ""
\* count as not set, which is the reading the validators themselves take).
DestinosPuestos == {k \in {"id_publicacion", "id_comentario"} : k \in payload.presentes /\ Truthy(payload[k])}

\* C2: ComentarioCreate accepts a payload only if exactly one of id_publicacion
\* and id_comentario is set; both set, or neither set (omitted or null), is rejected.
C2_ComentarioCreateExigeUnDestino == Validado("ComentarioCreate") /\ veredicto.ok => Cardinality(DestinosPuestos) = 1

\* C3: ReaccionCreate is valid iff exactly one target is non-null; neither target
\* gives the 'no target' error and both targets the 'both targets' error.
C3_ReaccionCreateValidaSiiUnDestino ==
    Validado("ReaccionCreate") /\ "reaccion" \in payload.presentes /\ payload.reaccion \in TipoReaccion =>
        /\ veredicto.ok = (Cardinality(DestinosPuestos) = 1)
        /\ (Cardinality(DestinosPuestos) = 0 => veredicto.errores = {ERR_NINGUNO})
        /\ (Cardinality(DestinosPuestos) = 2 => veredicto.errores = {ERR_AMBOS})

(***************************************************************************)
(* SpecBorrado: the populated store under further inserts, hard deletes    *)
(* and eliminar_usuario.  At most MaxExtras rows are added.                *)
(***************************************************************************)
Extras == creados.c + creados.r + creados.f + creados.m - Cardinality(ComentariosConocidos)

InitBorrado ==
    /\ TablasPobladas
    /\ ultima = SinUltima
    /\ sol = <<>>
    /\ payload = SinPayload
    /\ veredicto = SinVeredicto

\* INSERTs with any user and any reference, valid or not.
InsertarComentario == \E u \in UsuariosConocidos, p \in {NULL} \cup PublicacionesConocidas, c \in Refs(creados.c + 1) : InsertComentario(Comentario("hola", u, p, c)) /\ otros
InsertarReaccionEn == \E t \in TipoReaccion, u \in UsuariosConocidos, p \in {NULL} \cup PublicacionesConocidas, c \in Refs(creados.c) : InsertReaccion(Reaccion(t, u, p, c)) /\ otros

CrearComentarioB == Extras < MaxExtras /\ InsertarComentario
CrearReaccionB == Extras < MaxExtras /\ InsertarReaccionEn
CrearFavoritoB == Extras < MaxExtras /\ \E u \in UsuariosConocidos, p \in PublicacionesConocidas : InsertFavorito(Favorito(u, p)) /\ otros
CrearMultimediaB == Extras < MaxExtras /\ \E p \in PublicacionesConocidas : InsertMultimedia(Multimedia(p)) /\ otros

\* Hard delete of one object other than a user: db.delete(obj); db.commit().  ultima
\* names the table and the key of the object and counts the rows removed.
BorrarObjeto ==
    /\ \E n \in ObjetosBorrables :
        /\ DbDelete(n)
        /\ ultima' = [op |-> "delete", res |-> n[1], id |-> n[2], dup |-> FALSE, n |-> Cardinality(Borrados(n) \cap Filas)]
    /\ UNCHANGED <<sol, payload, veredicto, nube>>

NextBorrado ==
    \/ CrearComentarioB
    \/ CrearReaccionB
    \/ CrearFavoritoB
    \/ CrearMultimediaB
    \/ EliminarUsuario
    \/ BorrarObjeto

SpecBorrado == InitBorrado /\ [][NextBorrado]_vars

(***************************************************************************)
(* SpecDestino: the rows that carry a target, comments and reactions, on   *)
(* the populated store: their inserts, their updates and eliminar_usuario. *)
(* At most MaxDestinos rows are added.                                     *)
(***************************************************************************)
CrearComentarioD == Extras < MaxDestinos /\ InsertarComentario
CrearReaccionD == Extras < MaxDestinos /\ InsertarReaccionEn

NextDestino ==
    \/ CrearComentarioD
    \/ CrearReaccionD
    \/ CambiarReaccion
    \/ EliminarLogicamenteComentario
    \/ EliminarUsuario

SpecDestino == InitBorrado /\ [][NextDestino]_vars

(***************************************************************************)
(* Update schemas and update handlers.  The schemas and actualizar_usuario *)
(* are code; the handlers that edit a comment, a post or a reaction are    *)
(* the Integrity Engine's updateEntity: NotFound when the row is absent,   *)
(* EntityDeleted when a comment or post is logically deleted, otherwise    *)
(* the fields of the patch are assigned and committed.                     *)
(***************************************************************************)
ERR_TITULO_CORTO == "ensure this value has at least 5 characters"
ERR_TITULO_VACIO == "El título no puede estar vacío"

\* ComentarioUpdate.comentario: Field(..., min_length=1), then @validator('comentario').
ComentarioUpdate_validar_comentario(v) == IF Len(v) < 1 THEN Invalido(v, ERR_MIN_LENGTH) ELSE IF Strip(v) = "" THEN Invalido(v, ERR_VACIO) ELSE Valido(Strip(v))

\* PublicacionUpdate.titulo: Optional[str] = Field(None, min_length=5), then @validator('titulo').
PublicacionUpdate_validar_titulo(v) == IF Len(v) < 5 THEN Invalido(v, ERR_TITULO_CORTO) ELSE IF Strip(v) = "" THEN Invalido(v, ERR_TITULO_VACIO) ELSE Valido(Strip(v))

\* ReaccionUpdate.reaccion: TipoReaccion = Field(...).
ReaccionUpdate_reaccion(v) == IF v \in TipoReaccion THEN Valido(v) ELSE Invalido(v, ERR_ENUM)

\* The row of a table with a given id.
Fila(tabla, id) == CHOOSE x \in tabla : x.id = id

\* A patch for a post: the keys set in the body, and their values.
PatchesPublicacion ==
    {q \in [presentes : SUBSET {"titulo", "descripcion", "estatus"}, titulo : {"", "Mole poblano", "Sopa"}, descripcion : {"", "nueva"}, estatus : {""} \cup EstatusPublicacion] :
        /\ q.presentes # {}
        /\ ("titulo" \in q.presentes) = (q.titulo # "")
        /\ ("descripcion" \in q.presentes) = (q.descripcion # "")
        /\ ("estatus" \in q.presentes) = (q.estatus # "")}

\* PublicacionUpdate(**patch).
PublicacionUpdate(q) == IF "titulo" \in q.presentes THEN PublicacionUpdate_validar_titulo(q.titulo) ELSE Valido("")

\* The row with the fields of the patch assigned.
AplicarPatchPublicacion(x, q, titulo) ==
    [x EXCEPT !.titulo = IF "titulo" \in q.presentes THEN titulo ELSE @,
              !.descripcion = IF "descripcion" \in q.presentes THEN q.descripcion ELSE @,
              !.estatus = IF "estatus" \in q.presentes THEN q.estatus ELSE @]

\* updateEntity on a comment: the answer, and the row as it is left.
updateComentario_error(id, v) ==
    IF ~ComentarioUpdate_validar_comentario(v).ok THEN "ValidationError"
    ELSE IF id \notin Ids(comentarios) THEN "NotFound"
    ELSE IF Fila(comentarios, id).estatus = ELIMINADO THEN "EntityDeleted"
    ELSE OK
updateComentario(id, v) ==
    IF updateComentario_error(id, v) # OK THEN UNCHANGED tablas
    ELSE UpdateComentario(Fila(comentarios, id), [Fila(comentarios, id) EXCEPT !.comentario = ComentarioUpdate_validar_comentario(v).v])

\* updateEntity on a post.
updatePublicacion_error(id, q) ==
    IF ~PublicacionUpdate(q).ok THEN "ValidationError"
    ELSE IF id \notin Ids(publicaciones) THEN "NotFound"
    ELSE IF Fila(publicaciones, id).estatus = ELIMINADA THEN "EntityDeleted"
    ELSE OK
updatePublicacion(id, q) ==
    IF updatePublicacion_error(id, q) # OK THEN UNCHANGED tablas
    ELSE UpdatePublicacion(Fila(publicaciones, id), AplicarPatchPublicacion(Fila(publicaciones, id), q, PublicacionUpdate(q).v))

\* updateEntity on a reaction.
updateReaccion_error(id, v) ==
    IF ~ReaccionUpdate_reaccion(v).ok THEN "ValidationError"
    ELSE IF id \notin Ids(reacciones) THEN "NotFound"
    ELSE OK
updateReaccion(id, v) ==
    IF updateReaccion_error(id, v) # OK THEN UNCHANGED tablas
    ELSE UpdateReaccion(Fila(reacciones, id), [Fila(reacciones, id) EXCEPT !.reaccion = v])

\* createComment: the Association Validator, then the target must be a row that is
\* not logically deleted, then the INSERT.
createComment_error(u, p, c) ==
    IF (p = NULL) = (c = NULL) THEN "InvalidAssociation"
    ELSE IF p # NULL /\ (p \notin Ids(publicaciones) \/ Fila(publicaciones, p).estatus = ELIMINADA) THEN "TargetNotFound"
    ELSE IF c # NULL /\ (c \notin Ids(comentarios) \/ Fila(comentarios, c).estatus = ELIMINADO) THEN "TargetNotFound"
    ELSE ErrorInsertComentario(Comentario("hola", u, p, c))
createComment(u, p, c) ==
    IF createComment_error(u, p, c) # OK THEN UNCHANGED tablas
    ELSE InsertComentario(Comentario("hola", u, p, c))

\* None, in a text field of a request body or of a row.
None == "<None>"

ERR_EMAIL == "value is not a valid email address"
ERR_ALIAS_CORTO == "ensure this value has at least 3 characters"
ERR_ALIAS == "El alias solo puede contener letras, números y guiones bajos"
ERR_CLAVE == "La contraseña debe tener al menos 10 caracteres, una mayúscula, una minúscula y un número"
ERR_CLAVE_IGUAL == "La nueva contraseña debe ser diferente a la actual"

\* any(c in letras for c in v).
Alguno(v, letras) == \E i \in 1..Len(v) : En(SubSeq(v, i, i), letras)

\* pydantic EmailStr: one @ with text on both sides; the part from the @ on is put in
\* lower case, the local part is kept as written.
EmailStr(v) ==
    IF ~En("@", v) \/ SubSeq(v, 1, 1) = "@" \/ SubSeq(v, Len(v), Len(v)) = "@" THEN Invalido(v, ERR_EMAIL)
    ELSE LET k == CHOOSE i \in 1..Len(v) : SubSeq(v, i, i) = "@"
         IN  Valido(SubSeq(v, 1, k - 1) \o Lower(SubSeq(v, k, Len(v))))

\* UsuarioCreate: alias (min_length=3, validar_alias), email (EmailStr, validar_email)
\* and contraseña (min_length=10, validar_contraseña).
UsuarioCreate_validar_alias(v) == IF Len(v) < 3 THEN Invalido(v, ERR_ALIAS_CORTO) ELSE IF ~IsAlnum(Sin(v, "_")) THEN Invalido(v, ERR_ALIAS) ELSE Valido(Lower(v))
UsuarioCreate_validar_email(v) == IF EmailStr(v).ok THEN Valido(Lower(EmailStr(v).v)) ELSE EmailStr(v)
UsuarioCreate_validar_contrasena(v) == IF Len(v) >= 10 /\ Alguno(v, MAYUSCULAS) /\ Alguno(v, MINUSCULAS) /\ Alguno(v, DIGITOS) THEN Valido(v) ELSE Invalido(v, ERR_CLAVE)
UsuarioCreate(d) ==
    LET e == UsuarioCreate_validar_email(d.email)
        a == UsuarioCreate_validar_alias(d.alias)
        c == UsuarioCreate_validar_contrasena(d.clave)
    IN  IF e.ok /\ a.ok /\ c.ok THEN Valido([d EXCEPT !.email = e.v, !.alias = a.v])
        ELSE Invalido(d, IF ~e.ok THEN e.error ELSE IF ~a.ok THEN a.error ELSE c.error)

\* UsuarioUpdate.alias: Optional[str], min_length=3, then validar_alias.
UsuarioUpdate_validar_alias(v) == IF Len(v) < 3 THEN Invalido(v, ERR_ALIAS_CORTO) ELSE IF ~IsAlnum(v) /\ ~En("_", v) THEN Invalido(v, ERR_ALIAS) ELSE Valido(Lower(v))

\* A patch for a user: the keys set in the body, and their values.
PatchesUsuario ==
    {q \in [presentes : SUBSET {"email", "alias", "nombre"}, email : {"", "beto@x.mx", "caro@x.mx"}, alias : {"", "beto", "Caro"}, nombre : {"", "Eva"}] :
        /\ q.presentes # {}
        /\ ("email" \in q.presentes) = (q.email # "")
        /\ ("alias" \in q.presentes) = (q.alias # "")
        /\ ("nombre" \in q.presentes) = (q.nombre # "")}

\* UsuarioUpdate(**patch).dict(exclude_unset=True): the keys of the body, a key set
\* to null included; email is an Optional[EmailStr] with no validator of its own.
UsuarioUpdate(q) ==
    LET e == IF "email" \in q.presentes /\ q.email # None THEN EmailStr(q.email) ELSE Valido(q.email)
        a == IF "alias" \in q.presentes /\ q.alias # None THEN UsuarioUpdate_validar_alias(q.alias) ELSE Valido(q.alias)
    IN  IF e.ok /\ a.ok THEN Valido([q EXCEPT !.email = e.v, !.alias = a.v])
        ELSE Invalido(q, IF ~e.ok THEN e.error ELSE a.error)

\* What the engine answers to the UPDATE of user row x into y: email and alias are
\* nullable=False and unique=True.
ErrorUpdateUsuario(y) ==
    IF y.email = None \/ y.alias = None THEN IntegrityError("not_null")
    ELSE IF ~unique_email(y) THEN IntegrityError("unique_email")
    ELSE IF ~unique_alias(y) THEN IntegrityError("unique_alias")
    ELSE OK

\* repositories.actualizar_usuario up to the setattr loop: None when the user is not
\* found, ValueError when the new email or alias belongs to a row already.
actualizar_usuario_comprobar(usuario_id, q) ==
    IF get_usuario_by_id(usuario_id) = {} THEN "None"
    ELSE IF "email" \in q.presentes /\ q.email # Fila(usuarios, usuario_id).email /\ (\E y \in usuarios : y.email = q.email) THEN "El email ya está en uso"
    ELSE IF "alias" \in q.presentes /\ q.alias # Fila(usuarios, usuario_id).alias /\ (\E y \in usuarios : y.alias = q.alias) THEN "El alias ya está en uso"
    ELSE OK
\* Mutant: the registration time is written with the other fields.
actualizar_usuario_fila_con_fecha(x, q) ==
    [x EXCEPT !.email = IF "email" \in q.presentes THEN q.email ELSE @, !.alias = IF "alias" \in q.presentes THEN q.alias ELSE @, !.nombre = IF "nombre" \in q.presentes THEN q.nombre ELSE @, !.fecha_registro = Ahora]
actualizar_usuario_fila(x, q) ==
    [x EXCEPT !.email = IF "email" \in q.presentes THEN q.email ELSE @,
              !.alias = IF "alias" \in q.presentes THEN q.alias ELSE @,
              !.nombre = IF "nombre" \in q.presentes THEN q.nombre ELSE @]
\* repositories.actualizar_usuario: the checks, then every key of the patch is assigned
\* and committed; the engine may refuse the UPDATE.
actualizar_usuario_error(usuario_id, q) ==
    IF actualizar_usuario_comprobar(usuario_id, q) # OK THEN actualizar_usuario_comprobar(usuario_id, q)
    ELSE ErrorUpdateUsuario(actualizar_usuario_fila(Fila(usuarios, usuario_id), q))
actualizar_usuario(usuario_id, q) ==
    IF actualizar_usuario_error(usuario_id, q) # OK THEN UNCHANGED tablas
    ELSE /\ usuarios' = (usuarios \ {Fila(usuarios, usuario_id)}) \cup {actualizar_usuario_fila(Fila(usuarios, usuario_id), q)}
         /\ UNCHANGED <<publicaciones, comentarios, reacciones, favoritos, multimedia, creados>>

(***************************************************************************)
(* SpecEdicion: edits and logical deletes on the populated store.  sol     *)
(* counts the requests handled (at most MaxEdiciones) and keeps the rows   *)
(* on which a logical delete was called and which publicar has not taken   *)
(* out of the deleted status since; ultima is the last request, the row it *)
(* named and its answer.                                                   *)
(***************************************************************************)
\* What the update schema made of the body of the request.
Veredicto(r) == [SinVeredicto EXCEPT !.ok = r.ok, !.errores = Errores(r)]
Pedido(op, res, id) == [op |-> op, res |-> res, id |-> id, dup |-> FALSE, n |-> 0]
Atendida == sol' = [sol EXCEPT !.n = @ + 1]
AtendidaBorrando(obj) == sol' = [n |-> sol.n + 1, eliminados |-> sol.eliminados \cup {obj}]

InitEdicion ==
    /\ TablasPobladas
    /\ ultima = SinUltima
    /\ sol = [n |-> 0, eliminados |-> {}]
    /\ payload = SinPayload
    /\ veredicto = SinVeredicto

EditarComentario ==
    /\ sol.n < MaxEdiciones
    /\ \E id \in 1..(creados.c + 1), v \in {"editado", " "} :
        /\ updateComentario(id, v)
        /\ ultima' = Pedido("update_comentario", updateComentario_error(id, v), id)
        /\ veredicto' = Veredicto(ComentarioUpdate_validar_comentario(v))
    /\ Atendida /\ UNCHANGED <<payload, nube>>

EditarPublicacion ==
    /\ sol.n < MaxEdiciones
    /\ \E id \in 1..(creados.p + 1), q \in PatchesPublicacion :
        /\ updatePublicacion(id, q)
        /\ ultima' = Pedido("update_publicacion", updatePublicacion_error(id, q), id)
        /\ veredicto' = Veredicto(PublicacionUpdate(q))
    /\ Atendida /\ UNCHANGED <<payload, nube>>

EditarReaccion ==
    /\ sol.n < MaxEdiciones
    /\ \E id \in 1..(creados.r + 1), v \in TiposPayload :
        /\ updateReaccion(id, v)
        /\ ultima' = Pedido("update_reaccion", updateReaccion_error(id, v), id)
        /\ veredicto' = Veredicto(ReaccionUpdate_reaccion(v))
    /\ Atendida /\ UNCHANGED <<payload, nube>>

ActualizarUsuario ==
    /\ sol.n < MaxEdiciones
    /\ \E id \in 1..(creados.u + 1), q \in PatchesUsuario :
        actualizar_usuario(id, UsuarioUpdate(q).v) /\ ultima' = Pedido("actualizar_usuario", actualizar_usuario_error(id, UsuarioUpdate(q).v), id)
    /\ Atendida /\ UNCHANGED <<payload, veredicto, nube>>

BorrarLogicoComentario ==
    /\ sol.n < MaxEdiciones
    /\ \E x \in comentarios :
        /\ UpdateComentario(x, Comentario_eliminar_logicamente(x))
        /\ ultima' = Pedido("eliminar_logicamente_comentario", OK, x.id)
        /\ AtendidaBorrando(<<"Comentario", x.id>>)
    /\ UNCHANGED <<payload, veredicto, nube>>

BorrarLogicoPublicacion ==
    /\ sol.n < MaxEdiciones
    /\ \E x \in publicaciones :
        /\ UpdatePublicacion(x, Publicacion_eliminar_logicamente(x))
        /\ ultima' = Pedido("eliminar_logicamente_publicacion", OK, x.id)
        /\ AtendidaBorrando(<<"Publicacion", x.id>>)
    /\ UNCHANGED <<payload, veredicto, nube>>

CrearComentarioE ==
    /\ sol.n < MaxEdiciones
    /\ \E u \in Ids(usuarios), p \in Refs(creados.p + 1), c \in Refs(creados.c + 1) :
        /\ createComment(u, p, c)
        /\ ultima' = Pedido("create_comment", createComment_error(u, p, c), creados.c + 1)
        /\ payload' = [SinPayload EXCEPT !.esquema = "ComentarioCreate", !.comentario = "hola", !.id_publicacion = p, !.id_comentario = c]
    /\ Atendida /\ UNCHANGED <<veredicto, nube>>

PublicarE ==
    /\ sol.n < MaxEdiciones
    /\ \E x \in publicaciones :
        /\ UpdatePublicacion(x, Publicacion_publicar(x))
        /\ ultima' = Pedido("publicar", OK, x.id)
        /\ sol' = [n |-> sol.n + 1, eliminados |-> sol.eliminados \ {<<"Publicacion", x.id>>}]
    /\ UNCHANGED <<payload, veredicto, nube>>

CrearReaccionE ==
    /\ sol.n < MaxEdiciones
    /\ \E t \in TipoReaccion, u \in Ids(usuarios), c \in Ids(comentarios) :
        InsertReaccion(Reaccion(t, u, NULL, c)) /\ ultima' = Pedido("insert_reaccion", ErrorInsertReaccion(Reaccion(t, u, NULL, c)), creados.r + 1)
    /\ Atendida /\ UNCHANGED <<payload, veredicto, nube>>

NextEdicion ==
    \/ EditarComentario
    \/ EditarPublicacion
    \/ EditarReaccion
    \/ ActualizarUsuario
    \/ BorrarLogicoComentario
    \/ BorrarLogicoPublicacion
    \/ PublicarE
    \/ CrearReaccionE
    \/ CrearComentarioE

SpecEdicion == InitEdicion /\ [][NextEdicion]_vars

(***************************************************************************)
(* Properties of the store.                                                *)
(***************************************************************************)
ExactamenteUno(x) == (x.id_publicacion # NULL) # (x.id_comentario # NULL)

\* C1: in every reachable state every Comentario row and every Reaccion row has
\* exactly one of id_publicacion and id_comentario non-null.
C1_DestinoExclusivo == (\A x \in comentarios : ExactamenteUno(x)) /\ (\A x \in reacciones : ExactamenteUno(x))

\* A comment on a post with a reply, one of them logically deleted, next to a
\* reaction on a comment and a reaction on a post.
C1_Testigo ==
    /\ \E x \in comentarios : x.id_publicacion # NULL /\ x.estatus = ELIMINADO /\ \E y \in comentarios : y.id_comentario = x.id
    /\ \E x \in reacciones : x.id_comentario # NULL
    /\ \E x \in reacciones : x.id_publicacion # NULL

MismoDestino(x, y) == (x.id_publicacion # NULL /\ x.id_publicacion = y.id_publicacion) \/ (x.id_comentario # NULL /\ x.id_comentario = y.id_comentario)

\* C4: at most one Reaccion row per (user, target) pair, the target being a post or
\* a comment; a user may hold reactions on several targets at once.
C4_UnaReaccionPorDestino == \A x, y \in reacciones : x.id_usuario = y.id_usuario /\ MismoDestino(x, y) => x = y

\* One user holds three reactions at once, on posts and on comments.
C4_Testigo == \E u \in Ids(usuarios) : LET R == {x \in reacciones : x.id_usuario = u} IN Cardinality(R) = 3 /\ (\E x \in R : x.id_publicacion # NULL) /\ (\E x \in R : x.id_comentario # NULL)

\* The store's answer that stands for DuplicateReaction: a unique constraint of Reaccion.
DuplicateReaction == {"unique_reaccion_publicacion", "unique_reaccion_comentario"}

\* C5: creating a Reaction for a (user, target) pair that already has one fails with
\* the duplicate error, whatever the kind requested, and leaves every table as it was.
C5_DuplicadoRechazado == [][ultima'.op = "insert_reaccion" /\ ultima'.dup => ultima'.res \in DuplicateReaction /\ UNCHANGED tablas]_vars

\* A second creation for a pair was attempted and rejected while the first row is stored.
C5_Testigo == ultima.op = "insert_reaccion" /\ ultima.dup /\ ultima.res \in DuplicateReaction /\ Cardinality(reacciones) = 2

Otro(tipo) == IF tipo = LIKE THEN DISLIKE ELSE LIKE

\* C6: cambiar_reaccion turns like into dislike and dislike into like on the existing
\* row and changes nothing else (rows, id, owner, targets); twice restores the kind.
C6_CambiarReaccion ==
    [][ultima'.op = "cambiar_reaccion" =>
        \E x \in reacciones :
            /\ x.id = ultima'.id
            /\ reacciones' = (reacciones \ {x}) \cup {[id |-> x.id, reaccion |-> Otro(x.reaccion), id_usuario |-> x.id_usuario, id_publicacion |-> x.id_publicacion, id_comentario |-> x.id_comentario]}
            /\ Reaccion_cambiar_reaccion(Reaccion_cambiar_reaccion(x)) = x
            /\ UNCHANGED <<usuarios, publicaciones, comentarios, favoritos, multimedia, creados>>]_vars

\* A dislike has just been turned into a like, next to another reaction.
C6_Testigo == ultima.op = "cambiar_reaccion" /\ Cardinality(reacciones) >= 2 /\ \E x \in reacciones : x.id = ultima.id /\ x.reaccion = LIKE

\* The comments in C together with their replies at every depth.
RECURSIVE ConRespuestas(_)
ConRespuestas(C) == LET D == C \cup {x.id : x \in {y \in comentarios : y.id_comentario \in C}} IN IF D = C THEN C ELSE ConRespuestas(D)

\* What user u owns before a step: its posts, and the comments it wrote or that hang
\* from its posts, with all their replies.
PublicacionesDe(u) == {x.id : x \in {y \in publicaciones : y.id_autor = u}}
ComentariosBajo(u) == ConRespuestas({x.id : x \in {y \in comentarios : y.id_usuario = u \/ y.id_publicacion \in PublicacionesDe(u)}})

\* C9: after eliminar_usuario succeeds for u, no row references u or anything u
\* owned: its posts, comments, reactions and favorites are gone and so are the
\* comments, replies at any depth, reactions, media and favorites attached to them.
C9_SinResiduos ==
    [][ultima'.op = "eliminar_usuario" /\ ultima'.res = "True" =>
        LET u == ultima'.id
            P == PublicacionesDe(u)
            C == ComentariosBajo(u)
        IN  /\ u \notin Ids(usuarios')
            /\ \A x \in publicaciones' : x.id_autor # u /\ x.id \notin P
            /\ \A x \in comentarios' : x.id_usuario # u /\ x.id \notin C /\ x.id_publicacion \notin P /\ x.id_comentario \notin C
            /\ \A x \in reacciones' : x.id_usuario # u /\ x.id_publicacion \notin P /\ x.id_comentario \notin C
            /\ \A x \in multimedia' : x.id_publicacion \notin P
            /\ \A x \in favoritos' : x.id_usuario # u /\ x.id_publicacion \notin P]_vars

\* eliminar_usuario has just removed user 1 with its post, the comment of user 2 on
\* it, the reply to that comment, and a reply to the reply and a reaction added later.
C9_Testigo == ultima.op = "eliminar_usuario" /\ ultima.res = "True" /\ ultima.id = 1 /\ ultima.n = 6 /\ Ids(usuarios) = {2} /\ creados.c = 3 /\ creados.r = 1 /\ comentarios = {} /\ reacciones = {}

(***************************************************************************)
(* SpecCarrera: requests in flight on the populated store.  Each request   *)
(* is one database session: it reads, then writes and commits, and other   *)
(* requests run between its two statements.  sol[i] is the i-th request:   *)
(* its operation and arguments, the statement it is about to run (pc), its *)
(* answer (res) and the statement that produced the answer (paso).         *)
(***************************************************************************)
Solicitudes == 1..MaxSolicitudes
SinSolicitud == [op |-> "", pc |-> "", u |-> NULL, p |-> NULL, c |-> NULL, tipo |-> "", res |-> "", paso |-> ""]
Solicitud(op, pc, u, p, c, tipo) == [op |-> op, pc |-> pc, u |-> u, p |-> p, c |-> c, tipo |-> tipo, res |-> "", paso |-> ""]
Fin(s, res) == [s EXCEPT !.pc = "fin", !.res = res, !.paso = s.pc]
Sigue(s, pc) == [s EXCEPT !.pc = pc]

\* The requests a caller may send.
Peticiones ==
    {Solicitud("crear_reaccion", "comprobar", u, p, NULL, t) : u \in UsuariosConocidos, p \in PublicacionesConocidas, t \in TipoReaccion}
    \cup {Solicitud("crear_reaccion", "comprobar", u, NULL, c, t) : u \in UsuariosConocidos, c \in ComentariosConocidos, t \in TipoReaccion}
    \cup {Solicitud("crear_favorito", "comprobar", u, p, NULL, "") : u \in UsuariosConocidos, p \in PublicacionesConocidas}
    \cup {Solicitud("eliminar_usuario", "buscar", u, NULL, NULL, "") : u \in UsuariosConocidos}

\* The core's error for a store-level failure: a uniqueness violation is the core's
\* own Duplicate* error, any other integrity failure is ConstraintViolation.
ErrorDelNucleo(e) ==
    IF e = OK THEN "created"
    ELSE IF e \in {"unique_reaccion_publicacion", "unique_reaccion_comentario"} THEN "DuplicateReaction"
    ELSE IF e = "pk_favoritos" THEN "DuplicateFavorite"
    ELSE "ConstraintViolation"

\* createReaction, first statement: the target exists and the pair has no reaction.
createReaction_comprobar(s) ==
    IF ~(ForeignKeyNullable(publicaciones, s.p) /\ ForeignKeyNullable(comentarios, s.c)) THEN Fin(s, "TargetNotFound")
    ELSE IF ReaccionesDe(s.u, s.p, s.c) # {} THEN Fin(s, "DuplicateReaction")
    ELSE Sigue(s, "insertar")

\* createFavorite, first statement: the post exists and the pair is not a favorite.
createFavorite_comprobar(s) ==
    IF ~ForeignKey(publicaciones, s.p) THEN Fin(s, "TargetNotFound")
    ELSE IF \E y \in favoritos : y.id_usuario = s.u /\ y.id_publicacion = s.p THEN Fin(s, "DuplicateFavorite")
    ELSE Sigue(s, "insertar")

\* Mutant: the route answers 204 whatever the repository returns.
ruta_eliminar_usuario_siempre_204(eliminado) == "204"

\* routers.eliminar_usuario: 404 "Usuario no encontrado" when the repository returns
\* False, else 204 No Content.
ruta_eliminar_usuario(eliminado) == IF eliminado THEN "204" ELSE "404"

InitCarrera ==
    /\ TablasPobladas
    /\ ultima = SinUltima
    /\ sol = [i \in Solicitudes |-> SinSolicitud]
    /\ payload = SinPayload
    /\ veredicto = SinVeredicto

\* A request arrives and takes the next free slot.
Llegar ==
    /\ \E i \in Solicitudes, s \in Peticiones :
        /\ sol[i].op = ""
        /\ \A j \in 1..(i - 1) : sol[j].op # ""
        /\ sol' = [sol EXCEPT ![i] = s]
    /\ UNCHANGED <<tablas, ultima, payload, veredicto, nube>>

ComprobarReaccion ==
    /\ \E i \in Solicitudes :
        /\ sol[i].op = "crear_reaccion" /\ sol[i].pc = "comprobar"
        /\ sol' = [sol EXCEPT ![i] = createReaction_comprobar(sol[i])]
    /\ UNCHANGED <<tablas, ultima, payload, veredicto, nube>>

InsertarReaccion ==
    /\ \E i \in Solicitudes :
        /\ sol[i].op = "crear_reaccion" /\ sol[i].pc = "insertar"
        /\ LET x == Reaccion(sol[i].tipo, sol[i].u, sol[i].p, sol[i].c) IN
            /\ InsertReaccion(x)
            /\ sol' = [sol EXCEPT ![i] = Fin(sol[i], ErrorDelNucleo(ErrorInsertReaccion(x)))]
    /\ UNCHANGED <<ultima, payload, veredicto, nube>>

ComprobarFavorito ==
    /\ \E i \in Solicitudes :
        /\ sol[i].op = "crear_favorito" /\ sol[i].pc = "comprobar"
        /\ sol' = [sol EXCEPT ![i] = createFavorite_comprobar(sol[i])]
    /\ UNCHANGED <<tablas, ultima, payload, veredicto, nube>>

InsertarFavorito ==
    /\ \E i \in Solicitudes :
        /\ sol[i].op = "crear_favorito" /\ sol[i].pc = "insertar"
        /\ LET x == Favorito(sol[i].u, sol[i].p) IN
            /\ InsertFavorito(x)
            /\ sol' = [sol EXCEPT ![i] = Fin(sol[i], ErrorDelNucleo(ErrorInsertFavorito(x)))]
    /\ UNCHANGED <<ultima, payload, veredicto, nube>>

\* eliminar_usuario up to its early return: the SELECT of get_usuario_by_id.
BuscarUsuario ==
    /\ \E i \in Solicitudes :
        /\ sol[i].op = "eliminar_usuario" /\ sol[i].pc = "buscar"
        /\ sol' = [sol EXCEPT ![i] = IF get_usuario_by_id(sol[i].u) = {} THEN Fin(sol[i], ruta_eliminar_usuario(FALSE)) ELSE Sigue(sol[i], "borrar")]
    /\ UNCHANGED <<tablas, ultima, payload, veredicto, nube>>

\* eliminar_usuario after the lookup: db.delete(usuario); db.commit(); return True.
\* A DELETE that matches no row any more is not an error.
BorrarUsuario ==
    /\ \E i \in Solicitudes :
        /\ sol[i].op = "eliminar_usuario" /\ sol[i].pc = "borrar"
        /\ DbDelete(<<"Usuario", sol[i].u>>)
        /\ sol' = [sol EXCEPT ![i] = Fin(sol[i], ruta_eliminar_usuario(TRUE))]
    /\ UNCHANGED <<ultima, payload, veredicto, nube>>

NextCarrera == Llegar \/ ComprobarReaccion \/ InsertarReaccion \/ ComprobarFavorito \/ InsertarFavorito \/ BuscarUsuario \/ BorrarUsuario

SpecCarrera == InitCarrera /\ [][NextCarrera]_vars

\* The requests of S are all that have arrived, and all have been answered.
SoloEstas(S) == \A k \in Solicitudes : IF k \in S THEN sol[k].pc = "fin" ELSE sol[k].op = ""
Respuestas(i, j) == {sol[i].res, sol[j].res}

\* C7: the store never holds two Favoritos rows for one (user, post) pair, and of
\* two creations of the same favorite, under every interleaving, exactly one
\* succeeds and the other fails with DuplicateFavorite.
C7_FavoritoConcurrente ==
    /\ \A x, y \in favoritos : x.id_usuario = y.id_usuario /\ x.id_publicacion = y.id_publicacion => x = y
    /\ \A i, j \in Solicitudes :
        i # j /\ SoloEstas({i, j}) /\ sol[i].op = "crear_favorito" /\ sol[j].op = "crear_favorito" /\ sol[i].u = sol[j].u /\ sol[i].p = sol[j].p
        => Respuestas(i, j) = {"created", "DuplicateFavorite"} /\ Cardinality(favoritos) = 1

\* Both creations found no favorite, both inserted, and the store refused the second.
C7_Testigo == \E i, j \in Solicitudes : i # j /\ sol[i].op = "crear_favorito" /\ sol[j].op = "crear_favorito" /\ sol[i].u = sol[j].u /\ sol[i].p = sol[j].p /\ sol[i].res = "created" /\ sol[j].res = "DuplicateFavorite" /\ sol[j].paso = "insertar"

\* C8: of two creations of a reaction for the same (user, target) pair, under every
\* interleaving of their existence checks and inserts, exactly one succeeds and
\* the other fails with DuplicateReaction.
C8_ReaccionConcurrente ==
    \A i, j \in Solicitudes :
        i # j /\ SoloEstas({i, j}) /\ sol[i].op = "crear_reaccion" /\ sol[j].op = "crear_reaccion" /\ sol[i].u = sol[j].u /\ sol[i].p = sol[j].p /\ sol[i].c = sol[j].c
        => Respuestas(i, j) = {"created", "DuplicateReaction"} /\ Cardinality(reacciones) = 1

\* A like and a dislike of one user on one comment both passed the existence check,
\* and the store refused the second insert.
C8_Testigo == \E i, j \in Solicitudes : i # j /\ sol[i].op = "crear_reaccion" /\ sol[j].op = "crear_reaccion" /\ sol[i].u = sol[j].u /\ sol[i].c # NULL /\ sol[i].c = sol[j].c /\ sol[i].tipo # sol[j].tipo /\ sol[i].res = "created" /\ sol[j].res = "DuplicateReaction" /\ sol[j].paso = "insertar"

C11_ReferenciasResuelven ==
    /\ \A x \in publicaciones : x.id_autor \in Ids(usuarios)
    /\ \A x \in comentarios : x.id_usuario \in Ids(usuarios) /\ x.id_publicacion \in {NULL} \cup Ids(publicaciones) /\ x.id_comentario \in {NULL} \cup Ids(comentarios)
    /\ \A x \in reacciones : x.id_usuario \in Ids(usuarios) /\ x.id_publicacion \in {NULL} \cup Ids(publicaciones) /\ x.id_comentario \in {NULL} \cup Ids(comentarios)
    /\ \A x \in multimedia : x.id_publicacion \in Ids(publicaciones)
    /\ \A x \in favoritos : x.id_usuario \in Ids(usuarios) /\ x.id_publicacion \in Ids(publicaciones)

\* A comment has just been hard-deleted together with a row that hung from it, and
\* comments and posts that other rows reference remain.
C11_Testigo == ultima.op = "delete" /\ ultima.res = "Comentario" /\ ultima.n >= 2 /\ comentarios # {} /\ (reacciones # {} \/ favoritos # {} \/ multimedia # {})

C13_ComentarioBorradoEsLapida ==
    [][ultima'.op = "eliminar_logicamente_comentario" =>
        /\ Fila(comentarios', ultima'.id).estatus = ELIMINADO
        /\ Fila(comentarios', ultima'.id).comentario = TOMBSTONE
        /\ (Fila(comentarios, ultima'.id).estatus = ELIMINADO /\ Fila(comentarios, ultima'.id).comentario = TOMBSTONE => comentarios' = comentarios)]_vars
C13_Testigo ==
    /\ ultima.op = "eliminar_logicamente_comentario"
    /\ sol.n = 2
    /\ Cardinality(sol.eliminados) = 2
    /\ \A x \in comentarios : x.estatus = ELIMINADO /\ x.comentario = TOMBSTONE

\* C14: a logical delete of a post or of a comment keeps the row, with its id, its
\* owner, its targets and its creation time, and changes no other row of the store:
\* comments, replies, reactions, media and favorites stay as they were.
SinLaFila(tabla, id) == {x \in tabla : x.id # id}
C14_BorradoLogicoSoloTocaLaFila ==
    [][/\ ultima'.op = "eliminar_logicamente_comentario" =>
            /\ UNCHANGED <<usuarios, publicaciones, reacciones, favoritos, multimedia>>
            /\ SinLaFila(comentarios', ultima'.id) = SinLaFila(comentarios, ultima'.id)
            /\ \E x \in comentarios, y \in comentarios' :
                /\ x.id = ultima'.id /\ y.id = x.id
                /\ y.id_usuario = x.id_usuario /\ y.id_publicacion = x.id_publicacion
                /\ y.id_comentario = x.id_comentario /\ y.fecha_creacion = x.fecha_creacion
       /\ ultima'.op = "eliminar_logicamente_publicacion" =>
            /\ UNCHANGED <<usuarios, comentarios, reacciones, favoritos, multimedia>>
            /\ SinLaFila(publicaciones', ultima'.id) = SinLaFila(publicaciones, ultima'.id)
            /\ \E x \in publicaciones, y \in publicaciones' :
                /\ x.id = ultima'.id /\ y.id = x.id
                /\ y.id_autor = x.id_autor /\ y.fecha_creacion = x.fecha_creacion
                /\ y.fecha_publicacion = x.fecha_publicacion]_vars
C14_Testigo ==
    /\ ultima.op = "eliminar_logicamente_publicacion"
    /\ reacciones # {}
    /\ \E x \in publicaciones : x.id = ultima.id /\ x.estatus = ELIMINADA /\ (\E c \in comentarios : c.id_publicacion = x.id /\ c.estatus = ACTIVO)

\* A row is logically deleted when eliminar_logicamente was called on it, or its
\* status is the deleted one, and publicar has not made it publicada since.
Borrado(tabla, nombre, id) == \E x \in tabla : x.id = id /\ (x.estatus \in {ELIMINADA, ELIMINADO} \/ <<nombre, id>> \in sol.eliminados)

C16_EliminadaEsTerminal ==
    [][\A x \in publicaciones, y \in publicaciones' : x.id = y.id /\ x.estatus = ELIMINADA => y.estatus = ELIMINADA]_vars

\* C17: creating a comment succeeds only on a target that exists and is not
\* logically deleted: then one active row with that target is added; on a target
\* that is absent or deleted the answer is TargetNotFound and no row is added.
DestinoVivo(p, c) ==
    \/ p # NULL /\ c = NULL /\ p \in Ids(publicaciones) /\ ~Borrado(publicaciones, "Publicacion", p)
    \/ p = NULL /\ c # NULL /\ c \in Ids(comentarios) /\ ~Borrado(comentarios, "Comentario", c)
C17_ComentarioSoloEnDestinoVivo ==
    [][ultima'.op = "create_comment" =>
        /\ (ultima'.res = OK) = DestinoVivo(payload'.id_publicacion, payload'.id_comentario)
        /\ ultima'.res = OK =>
            /\ Ids(comentarios') = Ids(comentarios) \cup {ultima'.id}
            /\ ultima'.id \notin Ids(comentarios)
            /\ \E y \in comentarios' : y.id = ultima'.id /\ y.estatus = ACTIVO /\ y.id_publicacion = payload'.id_publicacion /\ y.id_comentario = payload'.id_comentario
        /\ ultima'.res # OK => UNCHANGED tablas
        /\ (payload'.id_publicacion = NULL) # (payload'.id_comentario = NULL) /\ ultima'.res # OK => ultima'.res = "TargetNotFound"]_vars
C17_Testigo ==
    /\ ultima.op = "create_comment"
    /\ ultima.res = "TargetNotFound"
    /\ payload.id_comentario \in Ids(comentarios)
    /\ Fila(comentarios, payload.id_comentario).estatus = ELIMINADO
    /\ creados.c = 2

\* C18: the parent links of the comments have no cycle: from every comment the
\* chain of parents ends, within as many steps as there are comments, at a root
\* comment that has no parent and is attached to a post of the store.
RECURSIVE LlegaARaiz(_, _)
LlegaARaiz(x, k) ==
    IF x.id_comentario = NULL THEN x.id_publicacion \in Ids(publicaciones)
    ELSE k > 0 /\ \E y \in comentarios : y.id = x.id_comentario /\ LlegaARaiz(y, k - 1)
C18_HilosSinCiclos == \A x \in comentarios : LlegaARaiz(x, Cardinality(comentarios) - 1)
C18_Testigo ==
    /\ ultima.op = "delete"
    /\ \E x, y, z \in comentarios :
        /\ x.id_comentario = y.id /\ y.id_comentario = z.id /\ z.id_comentario = NULL
        /\ z.id_publicacion \in Ids(publicaciones)

\* C19: an update changes no id, owner, target or creation time, and no row but
\* the one it names: of a comment only the text, of a reaction only the kind, of a
\* post only title, description and status, of a user only the profile fields of
\* UsuarioUpdate (never id, fecha_registro or the stored credential).
C19_EdicionNoTocaIdentidad ==
    [][/\ ultima'.op = "update_comentario" =>
            /\ UNCHANGED <<usuarios, publicaciones, reacciones, favoritos, multimedia>>
            /\ SinLaFila(comentarios', ultima'.id) = SinLaFila(comentarios, ultima'.id)
            /\ \A x \in comentarios : x.id = ultima'.id => \E y \in comentarios' : y = [x EXCEPT !.comentario = y.comentario]
       /\ ultima'.op = "update_reaccion" =>
            /\ UNCHANGED <<usuarios, publicaciones, comentarios, favoritos, multimedia>>
            /\ SinLaFila(reacciones', ultima'.id) = SinLaFila(reacciones, ultima'.id)
            /\ \A x \in reacciones : x.id = ultima'.id => \E y \in reacciones' : y = [x EXCEPT !.reaccion = y.reaccion]
       /\ ultima'.op = "update_publicacion" =>
            /\ UNCHANGED <<usuarios, comentarios, reacciones, favoritos, multimedia>>
            /\ SinLaFila(publicaciones', ultima'.id) = SinLaFila(publicaciones, ultima'.id)
            /\ \A x \in publicaciones : x.id = ultima'.id =>
                \E y \in publicaciones' : y = [x EXCEPT !.titulo = y.titulo, !.descripcion = y.descripcion, !.estatus = y.estatus, !.fecha_modificacion = y.fecha_modificacion]
       /\ ultima'.op = "actualizar_usuario" =>
            /\ UNCHANGED <<publicaciones, comentarios, reacciones, favoritos, multimedia>>
            /\ SinLaFila(usuarios', ultima'.id) = SinLaFila(usuarios, ultima'.id)
            /\ \A x \in usuarios : x.id = ultima'.id =>
                \E y \in usuarios' : y = [x EXCEPT !.email = y.email, !.alias = y.alias, !.nombre = y.nombre]]_vars
C19_Testigo ==
    /\ ultima.op = "actualizar_usuario"
    /\ ultima.res = OK
    /\ sol.n = 2
    /\ Fila(usuarios, ultima.id).alias = "caro"
    /\ Fila(usuarios, ultima.id).fecha_registro = ultima.id
    /\ \E x \in reacciones : x.reaccion = DISLIKE

\* C20: the hard delete of a post removes the post, its comments with their replies
\* at every depth, the reactions on the post and on those comments, its media and
\* its favorites; the hard delete of a comment removes the comment, its replies at
\* every depth and the reactions on any of them.  No other row is removed.
C20_BorradoFisicoEnCascada ==
    [][/\ ultima'.op = "delete" /\ ultima'.res = "Publicacion" =>
            LET p == ultima'.id
                C == ConRespuestas({x.id : x \in {y \in comentarios : y.id_publicacion = p}})
            IN  /\ publicaciones' = {x \in publicaciones : x.id # p}
                /\ comentarios' = {x \in comentarios : x.id \notin C}
                /\ reacciones' = {x \in reacciones : x.id_publicacion # p /\ x.id_comentario \notin C}
                /\ multimedia' = {x \in multimedia : x.id_publicacion # p}
                /\ favoritos' = {x \in favoritos : x.id_publicacion # p}
                /\ usuarios' = usuarios
       /\ ultima'.op = "delete" /\ ultima'.res = "Comentario" =>
            LET C == ConRespuestas({ultima'.id})
            IN  /\ comentarios' = {x \in comentarios : x.id \notin C}
                /\ reacciones' = {x \in reacciones : x.id_comentario \notin C}
                /\ UNCHANGED <<usuarios, publicaciones, multimedia, favoritos>>]_vars
C20_Testigo ==
    /\ ultima.op = "delete" /\ ultima.res = "Publicacion" /\ ultima.id = 1
    /\ ultima.n = 5 /\ creados.c = 3 /\ creados.r = 1
    /\ comentarios = {} /\ reacciones = {}
    /\ Ids(publicaciones) = {2}

(***************************************************************************)
(* SpecRegistro: registrations, profile updates and password changes in    *)
(* flight on the populated store.  A request is one database session; the  *)
(* statements of a registration and of an update are separated by the      *)
(* statements of the other requests.  sol[i] is the i-th request, nube the *)
(* media store: one resource per public_id, version being the request      *)
(* whose upload wrote it (0: it was there at the start).                   *)
(***************************************************************************)
MaxRegistros == 2
Registros == 1..MaxRegistros
CLAVE_NUEVA == "Nueva12345b"
SinRegistro == [op |-> "", pc |-> "", k |-> 0, id |-> NULL, presentes |-> {}, email |-> "", alias |-> "", nombre |-> "", clave |-> "", nueva |-> "", foto |-> FALSE, foto_perfil |-> "", res |-> "", detalle |-> "", paso |-> ""]
registrar(email, alias, clave, foto) == [SinRegistro EXCEPT !.op = "registrar_usuario", !.pc = "subir", !.email = email, !.alias = alias, !.clave = clave, !.foto = foto]
actualizar(id, presentes, email, alias, nombre) == [SinRegistro EXCEPT !.op = "actualizar_usuario", !.pc = "buscar", !.id = id, !.presentes = presentes, !.email = email, !.alias = alias, !.nombre = nombre]
cambiar(id, clave, nueva) == [SinRegistro EXCEPT !.op = "cambiar_contrasena", !.pc = "cambiar", !.id = id, !.clave = clave, !.nueva = nueva]

\* The requests a caller may send.
PeticionesRegistro ==
    <<registrar("Caro@X.mx", "Caro", CLAVE, TRUE),
      registrar("ana@x.mx", "ana", CLAVE, TRUE),
      registrar("dora@x.mx", "Ana", CLAVE, TRUE),
      registrar("ANA@x.mx", "dora", CLAVE, FALSE),
      registrar("dora@x.mx", "do ra", CLAVE, TRUE),
      actualizar(1, {"email"}, "beto@x.mx", "", ""),
      actualizar(1, {"email"}, "Caro@X.mx", "", ""),
      actualizar(1, {"alias"}, "", "Caro", ""),
      actualizar(1, {"alias"}, "", "beto", ""),
      actualizar(2, {"alias"}, "", "ca_ro!", ""),
      actualizar(1, {"alias"}, "", "ca ro", ""),
      actualizar(1, {"email", "nombre"}, "ana@x.mx", "", "Eva"),
      actualizar(3, {"nombre"}, "", "", "Eva"),
      actualizar(1, {"email"}, None, "", ""),
      cambiar(1, CLAVE, CLAVE_NUEVA),
      cambiar(1, CLAVE_NUEVA, CLAVE),
      cambiar(3, CLAVE, CLAVE_NUEVA),
      cambiar(1, CLAVE, "corta")>>

\* The answer of a request: status code and detail.
Responde(s, res, detalle) == [Fin(s, res) EXCEPT !.detalle = detalle]

\* utils.cloudinary.upload_image(file, folder, public_id) with overwrite=True: the
\* resource under public_id is written, whether or not there was one.
upload_image(contenido, public_id, version) == {m \in nube : m.public_id # public_id} \cup {[public_id |-> public_id, contenido |-> contenido, version |-> version]}

\* routers.registrar_usuario up to the call of crear_usuario: UsuarioCreate(...), a
\* ValueError of which is a 400; then the upload of the photo under user_<alias>.
registrar_usuario_validar(s) ==
    IF ~UsuarioCreate(s).ok THEN Responde(s, "400", UsuarioCreate(s).error)
    ELSE Sigue(UsuarioCreate(s).v, "comprobar")

\* Mutant: the alias is looked up before the email.
crear_usuario_comprobar_alias_primero(d) ==
    IF \E y \in usuarios : y.alias = d.alias THEN "El alias ya está en uso"
    ELSE IF \E y \in usuarios : y.email = d.email THEN "El email ya está registrado"
    ELSE OK

\* repositories.crear_usuario, the two SELECTs: ValueError when the email, then when
\* the alias, belongs to a row.
crear_usuario_comprobar(d) ==
    IF \E y \in usuarios : y.email = d.email THEN "El email ya está registrado"
    ELSE IF \E y \in usuarios : y.alias = d.alias THEN "El alias ya está en uso"
    ELSE OK

\* repositories.crear_usuario, the row it adds.
crear_usuario_fila(d) == Usuario(d.email, d.alias, hash_password(d.clave), d.foto_perfil)

\* routers.registrar_usuario, the except clauses around crear_usuario: ValueError is
\* a 400 with the message, any other exception a 500.
ruta_registrar_usuario(e) == IF e = OK THEN "201" ELSE IF e \in {"unique_email", "unique_alias"} THEN "500" ELSE "400"

\* routers.actualizar_usuario: None is a 404, ValueError a 400; nothing catches the
\* IntegrityError of the commit.
ruta_actualizar_usuario(e) == IF e = OK THEN "200" ELSE IF e = "None" THEN "404" ELSE IF e \in {"unique_email", "unique_alias", "not_null"} THEN "500" ELSE "400"

\* repositories.cambiar_contraseña: ValueError when the user is not found or the
\* current password does not verify.
cambiar_contrasena_error(usuario_id, contrasena_actual) ==
    IF get_usuario_by_id(usuario_id) = {} THEN "Usuario no encontrado"
    ELSE IF ~verify_password(contrasena_actual, Fila(usuarios, usuario_id).contrasena) THEN "Contraseña actual incorrecta"
    ELSE OK
cambiar_contrasena(usuario_id, contrasena_actual, contrasena_nueva) ==
    IF cambiar_contrasena_error(usuario_id, contrasena_actual) # OK THEN UNCHANGED tablas
    ELSE /\ usuarios' = (usuarios \ {Fila(usuarios, usuario_id)}) \cup {[Fila(usuarios, usuario_id) EXCEPT !.contrasena = hash_password(contrasena_nueva)]}
         /\ UNCHANGED <<publicaciones, comentarios, reacciones, favoritos, multimedia, creados>>

\* UsuarioCambiarContraseña: the new password is strong and differs from the current.
UsuarioCambiarContrasena(contrasena_actual, contrasena_nueva) ==
    IF ~UsuarioCreate_validar_contrasena(contrasena_nueva).ok THEN UsuarioCreate_validar_contrasena(contrasena_nueva)
    ELSE IF contrasena_nueva = contrasena_actual THEN Invalido(contrasena_nueva, ERR_CLAVE_IGUAL)
    ELSE Valido(contrasena_nueva)

InitRegistro ==
    /\ TablasPobladas
    /\ ultima = SinUltima
    /\ sol = [i \in Registros |-> SinRegistro]
    /\ payload = SinPayload
    /\ veredicto = SinVeredicto

\* A request arrives and takes the next free slot.  A request that has arrived and
\* has not run a statement yet has changed nothing, so the slots are taken in the
\* order of the list: every order of the statements of the requests remains.
LlegarRegistro ==
    /\ \E i \in Registros, k \in 1..Len(PeticionesRegistro) :
        /\ sol[i].op = ""
        /\ \A j \in 1..(i - 1) : sol[j].op # "" /\ sol[j].k <= k
        /\ sol' = [sol EXCEPT ![i] = [PeticionesRegistro[k] EXCEPT !.k = k]]
    /\ UNCHANGED <<tablas, ultima, payload, veredicto, nube>>

\* registrar_usuario, steps 1 and 2: the body is validated and the photo, if there
\* is one, uploaded; upload_image returns None when the upload fails.
SubirFoto ==
    /\ \E i \in Registros :
        /\ sol[i].op = "registrar_usuario" /\ sol[i].pc = "subir"
        /\ LET s == registrar_usuario_validar(sol[i]) IN
            \/ /\ s.pc = "fin" \/ ~s.foto
               /\ sol' = [sol EXCEPT ![i] = s]
               /\ nube' = nube
            \/ /\ s.pc # "fin" /\ s.foto
               /\ \/ sol' = [sol EXCEPT ![i] = [s EXCEPT !.foto_perfil = "user_" \o s.alias]] /\ nube' = upload_image("foto de " \o s.email, "user_" \o s.alias, i)
                  \/ sol' = [sol EXCEPT ![i] = s] /\ nube' = nube
    /\ UNCHANGED <<tablas, ultima, payload, veredicto>>

\* crear_usuario, the two SELECTs (one snapshot of the session).
ComprobarUsuario ==
    /\ \E i \in Registros :
        /\ sol[i].op = "registrar_usuario" /\ sol[i].pc = "comprobar"
        /\ sol' = [sol EXCEPT ![i] = IF crear_usuario_comprobar(sol[i]) = OK THEN Sigue(sol[i], "insertar")
                                     ELSE Responde(sol[i], ruta_registrar_usuario(crear_usuario_comprobar(sol[i])), crear_usuario_comprobar(sol[i]))]
    /\ UNCHANGED <<tablas, ultima, payload, veredicto, nube>>

\* crear_usuario, db.add and db.commit: the engine checks the unique columns.
InsertarUsuario ==
    /\ \E i \in Registros :
        /\ sol[i].op = "registrar_usuario" /\ sol[i].pc = "insertar"
        /\ LET x == crear_usuario_fila(sol[i]) IN
            /\ InsertUsuario(x)
            /\ sol' = [sol EXCEPT ![i] = [Responde(sol[i], ruta_registrar_usuario(ErrorInsertUsuario(x)), ErrorInsertUsuario(x)) EXCEPT !.id = IF ErrorInsertUsuario(x) = OK THEN x.id ELSE @]]
    /\ UNCHANGED <<ultima, payload, veredicto, nube>>

\* actualizar_usuario: the body is validated (422), then the lookup and the checks.
BuscarParaActualizar ==
    /\ \E i \in Registros :
        /\ sol[i].op = "actualizar_usuario" /\ sol[i].pc = "buscar"
        /\ LET q == UsuarioUpdate(sol[i]) IN
            sol' = [sol EXCEPT ![i] = IF ~q.ok THEN Responde(sol[i], "422", q.error)
                                      ELSE IF actualizar_usuario_comprobar(sol[i].id, q.v) # OK
                                           THEN Responde(q.v, ruta_actualizar_usuario(actualizar_usuario_comprobar(sol[i].id, q.v)), actualizar_usuario_comprobar(sol[i].id, q.v))
                                      ELSE Sigue(q.v, "guardar")]
    /\ UNCHANGED <<tablas, ultima, payload, veredicto, nube>>

\* actualizar_usuario, the setattr loop and db.commit.  An UPDATE of a row deleted
\* meanwhile matches no row; the store of this specification deletes no user.
GuardarUsuario ==
    /\ \E i \in Registros :
        /\ sol[i].op = "actualizar_usuario" /\ sol[i].pc = "guardar"
        /\ LET y == actualizar_usuario_fila(Fila(usuarios, sol[i].id), sol[i])
               e == ErrorUpdateUsuario(y)
           IN  /\ IF e = OK THEN usuarios' = (usuarios \ {Fila(usuarios, sol[i].id)}) \cup {y} ELSE usuarios' = usuarios
               /\ sol' = [sol EXCEPT ![i] = Responde(sol[i], ruta_actualizar_usuario(e), e)]
    /\ UNCHANGED <<publicaciones, comentarios, reacciones, favoritos, multimedia, creados, ultima, payload, veredicto, nube>>

\* cambiar_contraseña: one lookup, one UPDATE.
CambiarContrasena ==
    /\ \E i \in Registros :
        /\ sol[i].op = "cambiar_contrasena" /\ sol[i].pc = "cambiar"
        /\ LET v == UsuarioCambiarContrasena(sol[i].clave, sol[i].nueva)
               e == cambiar_contrasena_error(sol[i].id, sol[i].clave)
           IN  IF ~v.ok THEN UNCHANGED tablas /\ sol' = [sol EXCEPT ![i] = Responde(sol[i], "422", v.error)]
               ELSE /\ cambiar_contrasena(sol[i].id, sol[i].clave, sol[i].nueva)
                    /\ sol' = [sol EXCEPT ![i] = Responde(sol[i], IF e = OK THEN "200" ELSE "400", e)]
    /\ UNCHANGED <<ultima, payload, veredicto, nube>>

NextRegistro == LlegarRegistro \/ SubirFoto \/ ComprobarUsuario \/ InsertarUsuario \/ BuscarParaActualizar \/ GuardarUsuario \/ CambiarContrasena

SpecRegistro == InitRegistro /\ [][NextRegistro]_vars

(***************************************************************************)
(* Claims on SpecRegistro.                                                 *)
(***************************************************************************)
\* The request of slot i has been answered.
Respondida(i) == sol[i].op # "" /\ sol[i].pc = "fin"

\* C22: no two user rows share an email or an alias, whatever the registrations and
\* updates and however their statements interleave.
C22_EmailYAliasUnicos == \A x, y \in usuarios : x.id # y.id => x.email # y.email /\ x.alias # y.alias

\* Two requests passed their checks on the same alias or email; one was committed
\* and the engine refused the other.
C22_Testigo ==
    \E i, j \in Registros :
        /\ i # j /\ Respondida(i) /\ Respondida(j)
        /\ sol[i].detalle = OK /\ sol[i].paso \in {"insertar", "guardar"} /\ sol[i].alias # ""
        /\ sol[j].paso \in {"insertar", "guardar"} /\ sol[j].detalle \in {"unique_email", "unique_alias"}
        /\ sol[j].alias = sol[i].alias

\* C23: a registration refused as a duplicate is answered 400 with the duplicate
\* message, also when the duplicate was committed between its check and its insert.
C23_DuplicadoSiempre400 ==
    \A i \in Registros :
        Respondida(i) /\ sol[i].op = "registrar_usuario" /\ sol[i].detalle # OK
            => sol[i].res = "400" /\ sol[i].detalle \in {"El email ya está registrado", "El alias ya está en uso", ERR_ALIAS, ERR_ALIAS_CORTO, ERR_EMAIL, ERR_CLAVE}

\* C24: crear_usuario on a registered email raises ValueError("El email ya está
\* registrado"), also when the alias is used too; on a used alias alone it raises
\* ValueError("El alias ya está en uso"); both leave the store as it was.  With
\* neither in the store it adds exactly one row, with the email and alias of the
\* request and the hash of its password.
C24_CrearUsuario ==
    [][\A i \in Registros :
        sol[i].op = "registrar_usuario" /\ sol'[i] # sol[i] /\ sol[i].pc \in {"comprobar", "insertar"} =>
            LET email == \E y \in usuarios : y.email = sol[i].email
                alias == \E y \in usuarios : y.alias = sol[i].alias
                nuevos == usuarios' \ usuarios
            IN  /\ sol[i].pc = "comprobar" /\ email =>
                    sol'[i].pc = "fin" /\ sol'[i].res = "400" /\ sol'[i].detalle = "El email ya está registrado" /\ tablas' = tablas
                /\ sol[i].pc = "comprobar" /\ alias /\ ~email =>
                    sol'[i].pc = "fin" /\ sol'[i].res = "400" /\ sol'[i].detalle = "El alias ya está en uso" /\ tablas' = tablas
                /\ sol[i].pc = "comprobar" /\ ~alias /\ ~email => sol'[i].pc = "insertar" /\ tablas' = tablas
                /\ sol[i].pc = "insertar" /\ ~alias /\ ~email =>
                    /\ sol'[i].pc = "fin" /\ sol'[i].res = "201"
                    /\ usuarios \subseteq usuarios' /\ Cardinality(nuevos) = 1
                    /\ \A x \in nuevos :
                        /\ x.id = sol'[i].id /\ x.id \notin Ids(usuarios)
                        /\ x.email = sol[i].email /\ x.alias = sol[i].alias
                        /\ x.contrasena # sol[i].clave /\ verify_password(sol[i].clave, x.contrasena)
                    /\ <<publicaciones, comentarios, reacciones, favoritos, multimedia>>' = <<publicaciones, comentarios, reacciones, favoritos, multimedia>>]_vars

\* One registration added the user caro; another, on the email and the alias of
\* ana, was refused with the email message.
C24_Testigo ==
    \E i, j \in Registros :
        /\ Respondida(i) /\ sol[i].op = "registrar_usuario" /\ sol[i].res = "201"
        /\ \E x \in usuarios : x.id = sol[i].id /\ x.email = "caro@x.mx" /\ x.alias = "caro"
        /\ Respondida(j) /\ sol[j].email = "ana@x.mx" /\ sol[j].alias = "ana" /\ sol[j].detalle = "El email ya está registrado"

\* C25: actualizar_usuario returns None and changes nothing when the id is unknown;
\* raises ValueError and changes nothing when the patch carries an email or alias
\* that is not the user's own and belongs to a row; and otherwise assigns exactly
\* the keys of the patch, the user's own email or alias being accepted.  (A value
\* that another request committed after the checks is left aside.)
C25_ActualizarUsuario ==
    [][\A i \in Registros :
        sol[i].op = "actualizar_usuario" /\ sol'[i] # sol[i] /\ sol[i].pc \in {"buscar", "guardar"} /\ sol'[i].res # "422" =>
            LET q == sol'[i]
                x == Fila(usuarios, q.id)
                ajeno(campo) == campo \in q.presentes /\ q[campo] # x[campo] /\ \E y \in usuarios : y[campo] = q[campo]
            IN  IF sol[i].pc = "buscar" THEN
                    /\ tablas' = tablas
                    /\ IF get_usuario_by_id(q.id) = {} THEN q.pc = "fin" /\ q.res = "404"
                       ELSE IF ajeno("email") \/ ajeno("alias") THEN q.pc = "fin" /\ q.res = "400"
                       ELSE q.pc = "guardar"
                ELSE IF ajeno("email") \/ ajeno("alias") THEN TRUE
                ELSE /\ q.pc = "fin" /\ q.res = "200"
                     /\ usuarios' = (usuarios \ {x}) \cup {[x EXCEPT !.email = IF "email" \in q.presentes THEN q.email ELSE @,
                                                                     !.alias = IF "alias" \in q.presentes THEN q.alias ELSE @,
                                                                     !.nombre = IF "nombre" \in q.presentes THEN q.nombre ELSE @]}
                     /\ <<publicaciones, comentarios, reacciones, favoritos, multimedia, creados>>' = <<publicaciones, comentarios, reacciones, favoritos, multimedia, creados>>]_vars

\* C26: cambiar_contraseña replaces the stored credential by the hash of the new
\* password only when the user exists and the current password verifies against the
\* stored hash; otherwise it raises ValueError and no row changes.
C26_CambiarContrasena ==
    [][\A i \in Registros :
        sol[i].op = "cambiar_contrasena" /\ sol'[i] # sol[i] /\ sol[i].pc = "cambiar" =>
            LET q == sol'[i]
                x == Fila(usuarios, q.id)
            IN  IF q.res = "422" THEN tablas' = tablas
                ELSE IF \E y \in usuarios : y.id = q.id /\ y.contrasena = hash_password(q.clave)
                     THEN /\ q.res = "200"
                          /\ usuarios' = (usuarios \ {x}) \cup {[x EXCEPT !.contrasena = hash_password(q.nueva)]}
                          /\ <<publicaciones, comentarios, reacciones, favoritos, multimedia, creados>>' = <<publicaciones, comentarios, reacciones, favoritos, multimedia, creados>>
                ELSE /\ q.res = "400" /\ q.detalle \in {"Usuario no encontrado", "Contraseña actual incorrecta"}
                     /\ tablas' = tablas]_vars

\* One change of the password of user 1 went through, and a second request with the
\* password that was current before it was refused.
C26_Testigo ==
    \E i, j \in Registros :
        /\ Respondida(i) /\ sol[i].op = "cambiar_contrasena" /\ sol[i].res = "200" /\ sol[i].nueva = CLAVE_NUEVA
        /\ Respondida(j) /\ sol[j].op = "cambiar_contrasena" /\ sol[j].clave = CLAVE /\ sol[j].detalle = "Contraseña actual incorrecta"
        /\ Fila(usuarios, 1).contrasena = hash_password(CLAVE_NUEVA)

\* C27: a registration that failed has left nothing outside the store: no resource
\* of the media store was written by it, so no profile image of an existing user
\* was replaced.
C27_RegistroFallidoSinEfecto ==
    \A i \in Registros :
        Respondida(i) /\ sol[i].op = "registrar_usuario" /\ sol[i].res # "201" => \A r \in nube : r.version # i

\* C28: every stored alias is in lower case and made of letters, digits and
\* underscores only.
C28_AliasNormalizado == \A x \in usuarios : x.alias = Lower(x.alias) /\ IsAlnum(Sin(x.alias, "_"))

\* C29: every stored email is in lower case.
C29_EmailEnMinusculas == \A x \in usuarios : x.email = Lower(x.email)

(***************************************************************************)
(* SpecTransaccion: eliminar_usuario as the database session runs it.  The *)
(* tables are the committed store, what every other session reads.  The    *)
(* session of get_db is made with autocommit=False: the DELETE statements  *)
(* of the cascade are sent one by one inside its transaction (sol holds    *)
(* the rows deleted so far) and reach the store at db.commit(); the store  *)
(* may fail at any statement, and get_db closes the session, which rolls   *)
(* the transaction back.  Other sessions insert rows in between.           *)
(***************************************************************************)
MaxSesiones == 2
SinSesion == [n |-> 0, pc |-> "", u |-> NULL, pendientes |-> {}, res |-> ""]

\* Mutant: sessionmaker(autocommit=True): each DELETE reaches the store at once.
session_delete_autocommit(n) ==
    /\ usuarios' = {x \in usuarios : <<"Usuario", x.id>> # n}
    /\ publicaciones' = {x \in publicaciones : <<"Publicacion", x.id>> # n}
    /\ comentarios' = {x \in comentarios : <<"Comentario", x.id>> # n}
    /\ reacciones' = {x \in reacciones : <<"Reaccion", x.id>> # n}
    /\ multimedia' = {x \in multimedia : <<"Multimedia", x.id>> # n}
    /\ favoritos' = {x \in favoritos : <<"Favoritos", x.fila>> # n}
    /\ UNCHANGED creados

\* A DELETE sent inside the transaction of the session: the committed store keeps
\* the row until the commit.
session_delete(n) == UNCHANGED tablas

InitTransaccion ==
    /\ TablasPobladas
    /\ ultima = SinUltima
    /\ sol = SinSesion
    /\ payload = SinPayload
    /\ veredicto = SinVeredicto

\* get_db yields a session and eliminar_usuario looks the user up: False when there
\* is none, else db.delete(usuario).
AbrirSesion ==
    /\ sol.pc \in {"", "fin"} /\ sol.n < MaxSesiones
    /\ \E u \in 1..(MaxUsuarios + 1) :
        sol' = IF get_usuario_by_id(u) = {} THEN [n |-> sol.n + 1, pc |-> "fin", u |-> u, pendientes |-> {}, res |-> "False"]
               ELSE [n |-> sol.n + 1, pc |-> "borrando", u |-> u, pendientes |-> {}, res |-> ""]
    /\ UNCHANGED <<tablas, ultima, payload, veredicto, nube>>

\* db.commit() flushes the unit of work: one DELETE for a row of the cascade whose
\* own dependents are deleted already.
EnviarDelete ==
    /\ sol.pc = "borrando"
    /\ \E n \in Cascada({<<"Usuario", sol.u>>}) \ sol.pendientes :
        /\ Hijos(n) \subseteq sol.pendientes
        /\ session_delete(n)
        /\ sol' = [sol EXCEPT !.pendientes = @ \cup {n}]
    /\ UNCHANGED <<ultima, payload, veredicto, nube>>

\* The COMMIT of the transaction: every row of the cascade leaves the store at once.
Confirmar ==
    /\ sol.pc = "borrando" /\ Cascada({<<"Usuario", sol.u>>}) \subseteq sol.pendientes
    /\ DbDelete(<<"Usuario", sol.u>>)
    /\ sol' = [sol EXCEPT !.pc = "fin", !.res = "True"]
    /\ UNCHANGED <<ultima, payload, veredicto, nube>>

\* The store fails at a statement or at the COMMIT: the exception leaves the route
\* and the finally of get_db closes the session, which rolls back.
FallarYCerrar ==
    /\ sol.pc = "borrando"
    /\ sol' = [sol EXCEPT !.pc = "fin", !.res = "OperationalError"]
    /\ UNCHANGED <<tablas, ultima, payload, veredicto, nube>>

\* Rows committed by other sessions meanwhile.
OtraSesionComenta == Extras < MaxExtras /\ \E u \in UsuariosConocidos, p \in PublicacionesConocidas : InsertComentario(Comentario("hola", u, p, NULL)) /\ UNCHANGED <<ultima, sol, payload, veredicto, nube>>
OtraSesionGuarda == Extras < MaxExtras /\ \E u \in UsuariosConocidos, p \in PublicacionesConocidas : InsertFavorito(Favorito(u, p)) /\ UNCHANGED <<ultima, sol, payload, veredicto, nube>>

NextTransaccion == AbrirSesion \/ EnviarDelete \/ Confirmar \/ FallarYCerrar \/ OtraSesionComenta \/ OtraSesionGuarda

SpecTransaccion == InitTransaccion /\ [][NextTransaccion]_vars

\* C21: the cascade delete of a user is all or nothing.  A step of the store either
\* removes no row, or removes a user together with every row of its cascade and
\* nothing else; and a session that failed before its commit completed has removed
\* nothing.  No reader of the store sees the user gone and a dependent left, or a
\* dependent gone and the user left.
C21_BorradoTodoONada ==
    [][/\ \/ Filas \subseteq Filas'
          \/ /\ sol.pc = "borrando" /\ sol'.res = "True"
             /\ Filas \ Filas' = Borrados(<<"Usuario", sol.u>>) \cap Filas
             /\ Filas' \subseteq Filas
       /\ sol'.res = "OperationalError" /\ sol.pc = "borrando" => tablas' = tablas
       /\ \A x \in publicaciones' : x.id_autor \in Ids(usuarios')
       /\ \A x \in comentarios' : x.id_usuario \in Ids(usuarios')
       /\ \A x \in favoritos' : x.id_usuario \in Ids(usuarios')]_vars

\* A session deleting user 1 sent the DELETEs of its post and comments and failed;
\* the store still has every row it had, and the rows other sessions added.
C21_Testigo ==
    /\ sol.u = 1 /\ sol.res = "OperationalError"
    /\ {<<"Publicacion", 1>>, <<"Comentario", 1>>, <<"Comentario", 2>>} \subseteq sol.pendientes
    /\ Ids(usuarios) = {1, 2} /\ Ids(publicaciones) = {1, 2} /\ {1, 2} \subseteq Ids(comentarios)
    /\ creados.c > 2

(***************************************************************************)
(* Claim on SpecEdicion: publication date and status.                      *)
(***************************************************************************)
\* C30: a post has no publication date while it is a draft and has one whenever it
\* is published, through publicar, updates that carry estatus and logical deletes.
C30_FechaSigueAlEstatus ==
    \A x \in publicaciones :
        /\ x.estatus = BORRADOR => x.fecha_publicacion = NULL
        /\ x.estatus = PUBLICADA => x.fecha_publicacion # NULL

====
